---------------------------- MODULE Spec2Model ----------------------------
(***************************************************************************)
(* Model of the Indian-Law-Search ingestion core: the document key         *)
(* generators of the scrapers (scraper-service/*.py) and the extractive    *)
(* summarizer (backend-apis/summarizer.py).                                *)
(*                                                                         *)
(* Python strings are modelled as sequences of one-character strings, so   *)
(* that regular-expression substitution, split, strip, join, slicing and   *)
(* lower() are computed character by character as the code computes them.  *)
(***************************************************************************)
EXTENDS Integers, Sequences, FiniteSets, TLC

VARIABLES
    \* ---- document key generation (one call per behaviour)
    title,      \* the title argument (sequence of characters)
    date,       \* the date argument (sequence of characters)
    court,      \* the court argument of save_case
    op,         \* which key generator has run ("init" before the call)
    key,        \* the generated id
    \* ---- repeated ingestion of one source page
    pageText,   \* the text of the judgment page (soup.get_text())
    now,        \* the clock: the day on which a call is made
    bhcIds,     \* the ids the Bombay High Court scraper gave the page so far
    scIds,      \* the ids the Supreme Court scraper gave the page so far
    \* ---- one call of LegalCaseSummarizer.extract_case_summary
    caseText,          \* the case_text argument (None, or a string)
    caseTitle,         \* the case_title argument (None, or a string)
    maxSentences,      \* the max_sentences argument
    sumPc,             \* "ready" before the call, "done" after it
    summary,           \* the string returned
    summarySentences,  \* summary_sentences when the summary is joined
    regexSentences,    \* regex_sentences of extract_hybrid_summary
    sumySentences,     \* sumy_sentences of extract_hybrid_summary
    sumyRaised,        \* whether the sumy summarizer raised (and was caught)
    allSentences,      \* all_sentences returned by extract_hybrid_summary
    stageCounts,       \* len(all_sentences) after the regex and the sumy loop
    calls,             \* the stages invoked, in order
    sumyMethod,        \* the method argument of extract_summary_sumy
    \* ---- metadata extraction, run repeatedly on one judgment
    metaText,     \* the text of the page of the judgment
    metaPdfText,  \* the text of the PDF of the judgment
    metaTitle,    \* the title of the judgment
    metaFirst,    \* the metadata the first run extracted
    metaLast,     \* the metadata the latest run extracted
    metaRuns,     \* the number of runs so far
    scJudges,     \* the judges SCJudgmentScraper.extract_judges returned
    scCitation,   \* the citation SCJudgmentScraper.extract_citation returned
    scTags,       \* the tags SCJudgmentScraper.generate_tags returned
    metaScraper,  \* the scraper the judgment belongs to: "bhc" or "sc"
    \* ---- the judgments collection and the calls that save to it
    store,        \* the documents of the collection, in insertion order
    storeBefore,  \* the documents of the collection before the latest call
    lastSave,     \* the latest save call: function, document, outcome
    scSaved,      \* per id, the document SCJudgmentScraper saved last
    saves,        \* the number of save calls so far
    scrapeOut,    \* what the latest scrape_judgments returned
    racePc,       \* the position of each worker inside its save call
    raceDoc,      \* the document each worker is saving
    \* ---- the daily job of LegalCaseScraper
    autoStore,    \* the documents of db.judgments, in insertion order
    autoBefore,   \* the documents of db.judgments before the latest call
    esIndex,      \* the documents of indian_judgments_index, in indexing order
    autoRun,      \* the latest call: function, cases, count saved, cases indexed
    autoRuns,     \* the number of calls so far
    \* ---- concurrent calls on one shared LegalCaseSummarizer
    concFields,     \* the fields of the shared summarizer object
    concText,       \* the case_text argument of each call
    concTitle,      \* the case_title argument of each call
    concPc,         \* the position of each call
    concRegex,      \* regex_sentences, a local of each call
    concSumy,       \* sumy_sentences, a local of each call
    concOut,        \* the summary each call returned
    concOverlapped  \* whether a call took a step while another was running

keyVars == <<title, date, court, op, key>>

ingestVars == <<pageText, now, bhcIds, scIds>>

sumVars ==
    <<caseText, caseTitle, maxSentences, sumPc, summary, summarySentences,
      regexSentences, sumySentences, sumyRaised, allSentences, stageCounts, calls,
      sumyMethod>>

metaVars ==
    <<metaText, metaPdfText, metaTitle, metaFirst, metaLast, metaRuns, scJudges,
      scCitation, scTags, metaScraper>>

storeVars ==
    <<store, storeBefore, lastSave, scSaved, saves, scrapeOut, racePc, raceDoc>>

autoVars == <<autoStore, autoBefore, esIndex, autoRun, autoRuns>>

concVars ==
    <<concFields, concText, concTitle, concPc, concRegex, concSumy, concOut,
      concOverlapped>>

restVars == <<storeVars, autoVars, concVars>>

vars == <<keyVars, ingestVars, sumVars, metaVars, restVars>>

-----------------------------------------------------------------------------
(* Characters and the Python string primitives the code uses.              *)

LowerLetters ==
    <<"a","b","c","d","e","f","g","h","i","j","k","l","m",
      "n","o","p","q","r","s","t","u","v","w","x","y","z">>

UpperLetters ==
    <<"A","B","C","D","E","F","G","H","I","J","K","L","M",
      "N","O","P","Q","R","S","T","U","V","W","X","Y","Z">>

Range(s) == {s[i] : i \in 1..Len(s)}

Digits == {"0","1","2","3","4","5","6","7","8","9"}

Whitespace == {" ", "\t", "\n"}

IsLower(c) == c \in Range(LowerLetters)

IsUpper(c) == c \in Range(UpperLetters)

IsDigit(c) == c \in Digits

IsSpace(c) == c \in Whitespace

IsAlnum(c) == IsLower(c) \/ IsUpper(c) \/ IsDigit(c)

\* str.lower() on one character
LowerChar(c) ==
    IF IsUpper(c)
    THEN LowerLetters[CHOOSE i \in 1..Len(UpperLetters) : UpperLetters[i] = c]
    ELSE c

\* str.lower()
Lower(s) == [i \in 1..Len(s) |-> LowerChar(s[i])]

Min(a, b) == IF a < b THEN a ELSE b

\* the least element of a non-empty finite set of integers
SetMin(S) == CHOOSE x \in S : \A y \in S : x <= y

\* s[:n] for n >= 0
Take(s, n) == SubSeq(s, 1, Min(n, Len(s)))

\* s[n:] for n >= 0
Drop(s, n) == SubSeq(s, n + 1, Len(s))

\* str.split() with no argument: maximal runs of non-whitespace characters
RECURSIVE SplitWs(_, _, _)
SplitWs(s, cur, acc) ==
    IF s = <<>>
    THEN IF cur = <<>> THEN acc ELSE Append(acc, cur)
    ELSE IF IsSpace(Head(s))
         THEN SplitWs(Tail(s), <<>>, IF cur = <<>> THEN acc ELSE Append(acc, cur))
         ELSE SplitWs(Tail(s), Append(cur, Head(s)), acc)

Split(s) == SplitWs(s, <<>>, <<>>)

\* sep.join(words)
RECURSIVE Join(_, _)
Join(words, sep) ==
    IF words = <<>> THEN <<>>
    ELSE IF Len(words) = 1 THEN words[1]
    ELSE words[1] \o sep \o Join(Tail(words), sep)

\* the concatenation of a sequence of strings
RECURSIVE Flatten(_)
Flatten(ps) == IF ps = <<>> THEN <<>> ELSE Head(ps) \o Flatten(Tail(ps))

SeqsUpTo(S, n) == UNION {[1..k -> S] : k \in 0..n}

-----------------------------------------------------------------------------
(* Document key generators.                                                *)

IdWords == 3        \* clean_title.split()[:3]
IdDateDigits == 8   \* re.sub(r'[^0-9]', '', date)[:8]
ScSlugLen == 50     \* title_slug[:50]
ScraperScTitleLen == 30  \* case_title[:30]

\* re.sub(r'[^a-zA-Z0-9\s]', '', title)
CleanTitle(t) == SelectSeq(t, LAMBDA c : IsAlnum(c) \/ IsSpace(c))

\* the id suffix without the final .lower()
IdSuffixNoLower(t) == Join(Take(Split(CleanTitle(t)), IdWords), <<"_">>)

\* '_'.join(clean_title.split()[:3]).lower()
IdSuffix(t) == Lower(Join(Take(Split(CleanTitle(t)), IdWords), <<"_">>))

\* re.sub(r'[^0-9]', '', date)[:8]
CleanDate(d) == Take(SelectSeq(d, IsDigit), IdDateDigits)

\* f"{prefix}_{id_suffix}_{clean_date}"
ComposeId(prefix, suffix, cleanDate) ==
    prefix \o <<"_">> \o suffix \o <<"_">> \o cleanDate

Courts == {"Supreme Court of India", "Delhi High Court", "Bombay High Court",
           "Madras High Court"}

\* the dict .get(court, "court") of save_case
CourtPrefix(c) ==
    CASE c = "Supreme Court of India" -> <<"s","c">>
      [] c = "Delhi High Court"       -> <<"d","h","c">>
      [] c = "Bombay High Court"      -> <<"b","h","c">>
      [] OTHER                        -> <<"c","o","u","r","t">>

\* unified_scraper.save_case: the judgment_id it computes
SaveCaseId(c, t, d) == ComposeId(CourtPrefix(c), IdSuffix(t), CleanDate(d))

\* BHCJudgmentScraper.generate_judgment_id
BhcGenerateJudgmentId(t, d) == ComposeId(<<"b","h","c">>, IdSuffix(t), CleanDate(d))

\* re.sub(r'_+', '_', s): every run of underscores becomes one underscore
RECURSIVE CollapseUnderscores(_)
CollapseUnderscores(s) ==
    IF Len(s) < 2 THEN s
    ELSE IF s[1] = "_" /\ s[2] = "_" THEN CollapseUnderscores(Tail(s))
    ELSE <<s[1]>> \o CollapseUnderscores(Tail(s))

\* SCJudgmentScraper.generate_judgment_id: title_slug
ScTitleSlug(t) ==
    Take(CollapseUnderscores(
             [i \in 1..Len(t) |->
                 IF IsAlnum(Lower(t)[i]) THEN Lower(t)[i] ELSE "_"]),
         ScSlugLen)

\* SCJudgmentScraper.generate_judgment_id
ScGenerateJudgmentId(t, d) ==
    <<"s","c","_">> \o ScTitleSlug(t) \o <<"_">> \o SelectSeq(d, IsDigit)

\* str.strip(): leading and trailing whitespace removed
RECURSIVE LStrip(_)
LStrip(s) == IF s # <<>> /\ IsSpace(Head(s)) THEN LStrip(Tail(s)) ELSE s

RECURSIVE RStrip(_)
RStrip(s) ==
    IF s # <<>> /\ IsSpace(s[Len(s)]) THEN RStrip(SubSeq(s, 1, Len(s) - 1)) ELSE s

Strip(s) == RStrip(LStrip(s))

\* scraper_sc.scrape_sc_judgments: the "id" of case_json;
\* case_title is cols[1].get_text(strip=True), date_str is cols[3].get_text(strip=True)
ScraperScId(t, d) ==
    <<"s","c","_">>
    \o [i \in 1..Len(Take(Strip(t), ScraperScTitleLen)) |->
           IF Strip(t)[i] = " " THEN "_" ELSE Strip(t)[i]]
    \o <<"_">> \o Strip(d)

-----------------------------------------------------------------------------
(* Regular expressions as Python's re module matches them: a pattern is a   *)
(* sequence of atoms, each a character class with a repetition range        *)
(* (greedy, backtracking from the longest run) or an alternation of         *)
(* literals tried in order.  hi = -1 is an unbounded repetition.            *)

Cls(S, lo, hi) == [k |-> "cls", set |-> S, lo |-> lo, hi |-> hi, lits |-> <<>>]

Alt(lits) == [k |-> "alt", set |-> {}, lo |-> 1, hi |-> 1, lits |-> lits]

Lit(c) == Cls({c}, 1, 1)

\* \b
WordBoundary == [k |-> "wb", set |-> {}, lo |-> 0, hi |-> 0, lits |-> <<>>]

\* \w
IsWordChar(c) == IsAlnum(c) \/ c = "_"

\* whether position i of s is at a boundary between \w and \W
AtWordBoundary(s, i) ==
    (i > 1 /\ i - 1 <= Len(s) /\ IsWordChar(s[i - 1]))
        # (i <= Len(s) /\ IsWordChar(s[i]))

\* whether character c is in class S (ic: re.IGNORECASE)
InClass(c, S, ic) ==
    \/ c \in S
    \/ ic /\ \E d \in S : LowerChar(d) = LowerChar(c)

\* the number of consecutive characters of s from position i that are in S,
\* at most hi when hi >= 0
RECURSIVE RunLen(_, _, _, _, _)
RunLen(s, i, S, ic, hi) ==
    IF hi = 0 \/ i > Len(s) \/ ~InClass(s[i], S, ic) THEN 0
    ELSE 1 + RunLen(s, i + 1, S, ic, IF hi < 0 THEN hi ELSE hi - 1)

\* whether literal l occurs in s at position i
LitAt(s, i, l, ic) ==
    /\ i + Len(l) - 1 <= Len(s)
    /\ \A j \in 1..Len(l) :
          IF ic THEN LowerChar(s[i + j - 1]) = LowerChar(l[j])
          ELSE s[i + j - 1] = l[j]

\* the position after the match of atoms k.. of re at position i of s, as
\* the backtracking matcher finds it; 0 when there is no match
RECURSIVE MatchFrom(_, _, _, _, _)
RECURSIVE TryCounts(_, _, _, _, _, _)
RECURSIVE TryLits(_, _, _, _, _, _)
MatchFrom(re, k, s, i, ic) ==
    IF k > Len(re) THEN i
    ELSE IF re[k].k = "cls"
         THEN TryCounts(re, k, s, i, ic, RunLen(s, i, re[k].set, ic, re[k].hi))
    ELSE IF re[k].k = "wb"
         THEN IF AtWordBoundary(s, i) THEN MatchFrom(re, k + 1, s, i, ic) ELSE 0
    ELSE TryLits(re, k, s, i, ic, 1)

TryCounts(re, k, s, i, ic, n) ==
    IF n < re[k].lo THEN 0
    ELSE LET e == MatchFrom(re, k + 1, s, i + n, ic)
         IN  IF e # 0 THEN e ELSE TryCounts(re, k, s, i, ic, n - 1)

TryLits(re, k, s, i, ic, j) ==
    IF j > Len(re[k].lits) THEN 0
    ELSE LET e == IF LitAt(s, i, re[k].lits[j], ic)
                  THEN MatchFrom(re, k + 1, s, i + Len(re[k].lits[j]), ic)
                  ELSE 0
         IN  IF e # 0 THEN e ELSE TryLits(re, k, s, i, ic, j + 1)

\* the positions of s at which re matches
MatchStarts(re, s, ic) == {p \in 1..(Len(s) + 1) : MatchFrom(re, 1, s, p, ic) # 0}

\* re.search: <<start, end>> of the leftmost match (end exclusive),
\* <<0, 0>> when there is none
Search(re, s, ic) ==
    LET starts == MatchStarts(re, s, ic)
    IN  IF starts = {} THEN <<0, 0>>
        ELSE <<SetMin(starts), MatchFrom(re, 1, s, SetMin(starts), ic)>>

HasMatch(re, s, ic) == \E p \in 1..(Len(s) + 1) : MatchFrom(re, 1, s, p, ic) # 0

\* re.search(re, s).group(), and re.findall(re, s)[0] for a pattern with no group
FirstMatch(re, s, ic) ==
    LET m == Search(re, s, ic) IN SubSeq(s, m[1], m[2] - 1)

-----------------------------------------------------------------------------
(* Date extraction of the scrapers and the clock it falls back to.         *)

DateSep == {"/", "-"}

MonthNames ==
    << <<"J","a","n">>, <<"F","e","b">>, <<"M","a","r">>, <<"A","p","r">>,
       <<"M","a","y">>, <<"J","u","n">>, <<"J","u","l">>, <<"A","u","g">>,
       <<"S","e","p">>, <<"O","c","t">>, <<"N","o","v">>, <<"D","e","c">> >>

\* BHCJudgmentScraper.extract_date: date_patterns, in order
BhcDatePatterns ==
    << \* \d{1,2}[/-]\d{1,2}[/-]\d{4}
       << Cls(Digits, 1, 2), Cls(DateSep, 1, 1), Cls(Digits, 1, 2),
          Cls(DateSep, 1, 1), Cls(Digits, 4, 4) >>,
       \* \d{4}[/-]\d{1,2}[/-]\d{1,2}
       << Cls(Digits, 4, 4), Cls(DateSep, 1, 1), Cls(Digits, 1, 2),
          Cls(DateSep, 1, 1), Cls(Digits, 1, 2) >>,
       \* \d{1,2}\s+(?:Jan|...|Dec)[a-z]*\s+\d{4}
       << Cls(Digits, 1, 2), Cls(Whitespace, 1, -1), Alt(MonthNames),
          Cls(Range(LowerLetters), 0, -1), Cls(Whitespace, 1, -1),
          Cls(Digits, 4, 4) >>,
       \* (?:Jan|...|Dec)[a-z]*\s+\d{1,2},?\s+\d{4}
       << Alt(MonthNames), Cls(Range(LowerLetters), 0, -1),
          Cls(Whitespace, 1, -1), Cls(Digits, 1, 2), Cls({","}, 0, 1),
          Cls(Whitespace, 1, -1), Cls(Digits, 4, 4) >> >>

\* SCJudgmentScraper.extract_date: date_patterns, in order
ScDatePatterns ==
    << \* \d{1,2}-\d{1,2}-\d{4}
       << Cls(Digits, 1, 2), Lit("-"), Cls(Digits, 1, 2), Lit("-"),
          Cls(Digits, 4, 4) >>,
       \* \d{1,2}/\d{1,2}/\d{4}
       << Cls(Digits, 1, 2), Lit("/"), Cls(Digits, 1, 2), Lit("/"),
          Cls(Digits, 4, 4) >>,
       \* \d{4}-\d{2}-\d{2}
       << Cls(Digits, 4, 4), Lit("-"), Cls(Digits, 2, 2), Lit("-"),
          Cls(Digits, 2, 2) >> >>

DigitChars == <<"0","1","2","3","4","5","6","7","8","9">>

\* the clock: the day of August 2025 on which a call is made;
\* datetime.now().strftime("%Y-%m-%d")
StrftimeYmd(day) ==
    <<"2","0","2","5","-","0","8","-">>
    \o <<DigitChars[(day \div 10) + 1], DigitChars[(day % 10) + 1]>>

\* the first match of the first pattern that matches, else the current date
RECURSIVE FirstPatternMatch(_, _, _, _, _)
FirstPatternMatch(pats, i, s, ic, default) ==
    IF i > Len(pats) THEN default
    ELSE IF HasMatch(pats[i], s, ic) THEN FirstMatch(pats[i], s, ic)
    ELSE FirstPatternMatch(pats, i + 1, s, ic, default)

\* BHCJudgmentScraper.extract_date (re.findall with re.IGNORECASE)
BhcExtractDate(text, day) ==
    FirstPatternMatch(BhcDatePatterns, 1, text, TRUE, StrftimeYmd(day))

\* SCJudgmentScraper.extract_date (re.search, case-sensitive)
ScExtractDate(text, day) ==
    FirstPatternMatch(ScDatePatterns, 1, text, FALSE, StrftimeYmd(day))

-----------------------------------------------------------------------------
(* The summarizer before any call.                                         *)

\* Python truthiness of an optional string: None and "" are falsy
None == [none |-> TRUE, s |-> <<>>]

Some(s) == [none |-> FALSE, s |-> s]

Truthy(x) == ~x.none /\ x.s # <<>>

NoCounts == <<0, 0>>

\* no metadata extraction in this behaviour
MetaIdle ==
    /\ metaText = <<>>
    /\ metaPdfText = <<>>
    /\ metaTitle = <<>>
    /\ metaFirst = [judges |-> <<>>, citation |-> <<>>, sections |-> <<>>, tags |-> <<>>]
    /\ metaLast = [judges |-> <<>>, citation |-> <<>>, sections |-> <<>>, tags |-> <<>>]
    /\ metaRuns = 0
    /\ scJudges = <<>>
    /\ scCitation = <<>>
    /\ scTags = <<>>
    /\ metaScraper = "bhc"

\* no document is saved in this behaviour
StoreIdle ==
    /\ store = <<>>
    /\ storeBefore = <<>>
    /\ lastSave = <<>>
    /\ scSaved = {}
    /\ saves = 0
    /\ scrapeOut = <<>>
    /\ racePc = <<>>
    /\ raceDoc = <<>>

\* the daily job does not run in this behaviour
AutoIdle ==
    /\ autoStore = <<>>
    /\ autoBefore = <<>>
    /\ esIndex = <<>>
    /\ autoRun = <<>>
    /\ autoRuns = 0

\* LegalCaseSummarizer.__init__: the fields of the object, each list of
\* keywords standing for its contents
SummarizerFields ==
    [language |-> "english", stemmer |-> "english", stop_words |-> "english",
     legal_keywords |-> "legal_keywords", court_keywords |-> "court_keywords",
     section_keywords |-> "section_keywords"]

\* no concurrent calls in this behaviour
ConcIdle ==
    /\ concFields = SummarizerFields
    /\ concText = <<>>
    /\ concTitle = <<>>
    /\ concPc = <<>>
    /\ concRegex = <<>>
    /\ concSumy = <<>>
    /\ concOut = <<>>
    /\ concOverlapped = FALSE

RestIdle == StoreIdle /\ AutoIdle /\ ConcIdle

SumIdle ==
    /\ sumyMethod = "lsa"
    /\ caseText = None
    /\ caseTitle = None
    /\ maxSentences = 0
    /\ sumPc = "idle"
    /\ summary = <<>>
    /\ summarySentences = <<>>
    /\ regexSentences = <<>>
    /\ sumySentences = <<>>
    /\ sumyRaised = FALSE
    /\ allSentences = <<>>
    /\ stageCounts = NoCounts
    /\ calls = <<>>

-----------------------------------------------------------------------------
(* Inputs of the key generators.                                           *)

MaxTitleParts == 4
MaxDateParts == 3

TitleParts ==
    { <<"A","b"," ">>, <<"c","-","D">>, <<"&"," ">>, <<"7">>, <<" ","\n">> }

DateParts ==
    { <<"2","0","1","4">>, <<"-">>, <<"0","7">>, <<"1","/">> }

ArneshTitle ==
    <<"A","r","n","e","s","h"," ","K","u","m","a","r"," ","v","s"," ",
      "S","t","a","t","e"," ","o","f"," ","B","i","h","a","r">>

ArneshDate == <<"2","0","1","4","-","0","7","-","0","2">>

TitleSamples == { ArneshTitle, <<>>, <<"R","e",":">> }

DateSamples ==
    { ArneshDate, <<>>,
      <<"0","2","/","0","7","/","2","0","1","4"," ","1","0",":","3","0">> }

Titles == { Flatten(ps) : ps \in SeqsUpTo(TitleParts, MaxTitleParts) }

Dates == { Flatten(ps) : ps \in SeqsUpTo(DateParts, MaxDateParts) }

NoKey == <<"?">>

KeyInit ==
    /\ \/ title \in Titles \cup TitleSamples /\ date \in DateSamples
       \/ title \in TitleSamples /\ date \in Dates
    /\ court = "none"
    /\ op = "init"
    /\ key = NoKey
    /\ pageText = <<>>
    /\ now = 1
    /\ bhcIds = {}
    /\ scIds = {}
    /\ SumIdle
    /\ MetaIdle
    /\ RestIdle

\* unified_scraper.save_case, lines 34-47: the judgment_id of the case it saves
SaveCaseGenerateId ==
    /\ op = "init"
    /\ \E c \in Courts :
          /\ court' = c
          /\ key' = SaveCaseId(c, title, date)
    /\ op' = "save_case"
    /\ UNCHANGED <<title, date>>
    /\ UNCHANGED <<ingestVars, sumVars, metaVars, restVars>>

\* BHCJudgmentScraper.extract_judgment_info computes "id"
BhcGenerateId ==
    /\ op = "init"
    /\ court' = "Bombay High Court"
    /\ key' = BhcGenerateJudgmentId(title, date)
    /\ op' = "bhc"
    /\ UNCHANGED <<title, date>>
    /\ UNCHANGED <<ingestVars, sumVars, metaVars, restVars>>

\* SCJudgmentScraper.extract_judgment_info computes "id"
ScGenerateId ==
    /\ op = "init"
    /\ court' = "Supreme Court of India"
    /\ key' = ScGenerateJudgmentId(title, date)
    /\ op' = "sc"
    /\ UNCHANGED <<title, date>>
    /\ UNCHANGED <<ingestVars, sumVars, metaVars, restVars>>

\* scraper_sc.scrape_sc_judgments computes "id"
ScraperScGenerateId ==
    /\ op = "init"
    /\ court' = "Supreme Court of India"
    /\ key' = ScraperScId(title, date)
    /\ op' = "scraper_sc"
    /\ UNCHANGED <<title, date>>
    /\ UNCHANGED <<ingestVars, sumVars, metaVars, restVars>>

KeyNext == SaveCaseGenerateId \/ BhcGenerateId \/ ScGenerateId \/ ScraperScGenerateId

SpecKey == KeyInit /\ [][KeyNext]_vars

-----------------------------------------------------------------------------
(* make_key as specified: the reference the generators are compared with.  *)
(* It is written over positions of the title, independently of the         *)
(* split/join pipeline of the code.                                        *)

\* the k-th smallest element of a finite set of integers
KthOf(S, k) == CHOOSE i \in S : Cardinality({j \in S : j <= i}) = k

\* the subsequence of s at the positions in S, in order
SubseqAt(s, S) == [k \in 1..Cardinality(S) |-> s[KthOf(S, k)]]

\* the title with every character removed that is neither alphanumeric nor
\* a whitespace delimiter
SpecCleaned(t) == SubseqAt(t, {i \in 1..Len(t) : IsAlnum(t[i]) \/ IsSpace(t[i])})

\* positions where a whitespace-delimited token starts
SpecTokenStarts(c) ==
    {i \in 1..Len(c) : ~IsSpace(c[i]) /\ (i = 1 \/ IsSpace(c[i - 1]))}

\* the last position of the token starting at i
SpecTokenEnd(c, i) ==
    CHOOSE j \in i..Len(c) :
        /\ \A k \in i..j : ~IsSpace(c[k])
        /\ (j = Len(c) \/ IsSpace(c[j + 1]))

\* the whitespace-delimited tokens, in order
SpecTokens(c) ==
    [k \in 1..Cardinality(SpecTokenStarts(c)) |->
        SubSeq(c, KthOf(SpecTokenStarts(c), k),
               SpecTokenEnd(c, KthOf(SpecTokenStarts(c), k)))]

\* the first three tokens (or as many as exist), lowercased, joined with "_"
SpecTitleTokens(t) ==
    LET toks == SpecTokens(SpecCleaned(t))
        n    == IF Len(toks) < 3 THEN Len(toks) ELSE 3
    IN  Flatten([k \in 1..n |->
                    [i \in 1..Len(toks[k]) + (IF k = 1 THEN 0 ELSE 1) |->
                        IF k = 1 THEN LowerChar(toks[k][i])
                        ELSE IF i = 1 THEN "_" ELSE LowerChar(toks[k][i - 1])]])

\* the first 8 digits of the date (or as many as exist)
SpecDateDigits(d) ==
    LET digs == SubseqAt(d, {i \in 1..Len(d) : IsDigit(d[i])})
    IN  [i \in 1..(IF Len(digs) < 8 THEN Len(digs) ELSE 8) |-> digs[i]]

\* make_key(court_prefix, title, date)
SpecMakeKey(prefix, t, d) ==
    prefix \o <<"_">> \o SpecTitleTokens(t) \o <<"_">> \o SpecDateDigits(d)

ArneshKey ==
    <<"s","c","_","a","r","n","e","s","h","_","k","u","m","a","r","_",
      "v","s","_","2","0","1","4","0","7","0","2">>

\* C1: the key computed by save_case and by the Bombay High Court scraper is
\* prefix + "_" + (first three tokens of the cleaned title, lowercased,
\* joined with "_") + "_" + (first 8 digits of the date), with as many tokens
\* and digits as exist when there are fewer; the Arnesh Kumar example gives
\* sc_arnesh_kumar_vs_20140702.
C1_KeyIsMakeKey ==
    /\ op \in {"save_case", "bhc"} =>
          key = SpecMakeKey(CourtPrefix(court), title, date)
    /\ (op = "save_case" /\ court = "Supreme Court of India"
        /\ title = ArneshTitle /\ date = ArneshDate) => key = ArneshKey

\* a call of save_case on the Arnesh Kumar example has produced its key
C1_Witness ==
    /\ op = "save_case" /\ court = "Supreme Court of India"
    /\ title = ArneshTitle /\ date = ArneshDate
    /\ key = ArneshKey

\* a title of fewer than three tokens and a date of fewer than 8 digits
C1_WitnessShort ==
    /\ op = "bhc"
    /\ title = <<"A","b"," ","&"," ","7">>
    /\ date = <<"0","7","-","1","/">>
    /\ key = <<"b","h","c","_","a","b","_","7","_","0","7","1">>

\* C3 (as claimed): every ingestion path derives the key as make_key does,
\* in particular SCJudgmentScraper.generate_judgment_id(title, date) equals
\* make_key("sc", title, date).
C3_AllPathsUseMakeKey ==
    op # "init" => key = SpecMakeKey(CourtPrefix(court), title, date)

-----------------------------------------------------------------------------
(* Repeated ingestion of one source page by the scrapers.                  *)

MaxDay == 3
MaxPageFrags == 2

PageFrags ==
    { <<"O","r","d","e","r"," ","d","a","t","e","d"," ">>,
      <<"1","2","-","0","3","-","2","0","1","4">>,
      <<"2","0","1","4","-","0","7","-","0","2"," ">>,
      <<"3"," ","J","a","n"," ","2","0","1","4">>,
      <<"B","a","i","l"," ","g","r","a","n","t","e","d","."," ">> }

PageTexts == { Flatten(ps) : ps \in SeqsUpTo(PageFrags, MaxPageFrags) }

PageTitles == { ArneshTitle, <<"R","e",":"," ","B","a","i","l">> }

IngestInit ==
    /\ title \in PageTitles
    /\ pageText \in PageTexts
    /\ now = 1
    /\ bhcIds = {}
    /\ scIds = {}
    /\ date = <<>>
    /\ court = "none"
    /\ op = "init"
    /\ key = NoKey
    /\ SumIdle
    /\ MetaIdle
    /\ RestIdle

\* time passes between two ingestions
Tick ==
    /\ now < MaxDay
    /\ now' = now + 1
    /\ UNCHANGED <<title, date, court, op, key, pageText, bhcIds, scIds>>
    /\ UNCHANGED <<sumVars, metaVars, restVars>>

\* BHCJudgmentScraper.extract_judgment_info: the date and the id of the page
BhcExtractJudgmentInfo ==
    /\ title # <<>>
    /\ date' = BhcExtractDate(pageText, now)
    /\ key' = BhcGenerateJudgmentId(title, date')
    /\ bhcIds' = bhcIds \cup {key'}
    /\ court' = "Bombay High Court"
    /\ op' = "bhc_info"
    /\ UNCHANGED <<title, pageText, now, scIds>>
    /\ UNCHANGED <<sumVars, metaVars, restVars>>

\* SCJudgmentScraper.extract_judgment_info: the date and the id of the page
ScExtractJudgmentInfo ==
    /\ title # <<>>
    /\ date' = ScExtractDate(pageText, now)
    /\ key' = ScGenerateJudgmentId(title, date')
    /\ scIds' = scIds \cup {key'}
    /\ court' = "Supreme Court of India"
    /\ op' = "sc_info"
    /\ UNCHANGED <<title, pageText, now, bhcIds>>
    /\ UNCHANGED <<sumVars, metaVars, restVars>>

IngestNext == Tick \/ BhcExtractJudgmentInfo \/ ScExtractJudgmentInfo

SpecIngest == IngestInit /\ [][IngestNext]_vars

\* C2 (as claimed): re-ingesting the same page at any two times yields the
\* same document key, also when the page holds no date pattern.
C2_ReingestSameKey == Cardinality(bhcIds) <= 1 /\ Cardinality(scIds) <= 1

-----------------------------------------------------------------------------
(* The vocabulary of the case texts: each chunk is a sentence with its      *)
(* terminal punctuation.                                                   *)

\* a long, high-scoring sentence: "The Supreme Court held that the appellant is entitled to anticipatory bail under Section 438 of the Code today. "
ChunkLong ==
    <<"T","h","e"," ","S","u","p","r","e","m","e"," ","C","o","u","r","t"," ",
      "h","e","l","d"," ","t","h","a","t"," ","t","h","e"," ","a","p","p","e",
      "l","l","a","n","t"," ","i","s"," ","e","n","t","i","t","l","e","d"," ",
      "t","o"," ","a","n","t","i","c","i","p","a","t","o","r","y"," ","b","a",
      "i","l"," ","u","n","d","e","r"," ","S","e","c","t","i","o","n"," ","4",
      "3","8"," ","o","f"," ","t","h","e"," ","C","o","d","e"," ","t","o","d",
      "a","y","."," ">>

\* a plain sentence longer than 50 characters: "The matter was heard at length by the bench on that very day. "
ChunkPlain ==
    <<"T","h","e"," ","m","a","t","t","e","r"," ","w","a","s"," ","h","e","a",
      "r","d"," ","a","t"," ","l","e","n","g","t","h"," ","b","y"," ","t","h",
      "e"," ","b","e","n","c","h"," ","o","n"," ","t","h","a","t"," ","v","e",
      "r","y"," ","d","a","y","."," ">>

\* a sentence that ends with an ellipsis: "Justice Prasad observed that the petition filed by the accused vs State deserved no merit here... "
ChunkEllipsis ==
    <<"J","u","s","t","i","c","e"," ","P","r","a","s","a","d"," ","o","b","s",
      "e","r","v","e","d"," ","t","h","a","t"," ","t","h","e"," ","p","e","t",
      "i","t","i","o","n"," ","f","i","l","e","d"," ","b","y"," ","t","h","e",
      " ","a","c","c","u","s","e","d"," ","v","s"," ","S","t","a","t","e"," ",
      "d","e","s","e","r","v","e","d"," ","n","o"," ","m","e","r","i","t"," ",
      "h","e","r","e",".",".","."," ">>

\* a sentence of 31 to 50 characters: "The appeal was dismissed with costs today? "
ChunkShort ==
    <<"T","h","e"," ","a","p","p","e","a","l"," ","w","a","s"," ","d","i","s",
      "m","i","s","s","e","d"," ","w","i","t","h"," ","c","o","s","t","s"," ",
      "t","o","d","a","y","?"," ">>

\* a fragment of fewer than 20 characters: "Leave now! "
ChunkTiny ==
    <<"L","e","a","v","e"," ","n","o","w","!"," ">>

\* a sentence of exactly 30 characters: "The appeal was allowed in part. "
ChunkThirty ==
    <<"T","h","e"," ","a","p","p","e","a","l"," ","w","a","s"," ","a","l","l",
      "o","w","e","d"," ","i","n"," ","p","a","r","t","."," ">>

Chunks == {ChunkLong, ChunkPlain, ChunkEllipsis, ChunkShort, ChunkTiny, ChunkThirty}


-----------------------------------------------------------------------------
(* LegalCaseSummarizer: segmentation and the keyword heuristic scorer.     *)

Terminators == {".", "!", "?"}

\* re.split(r'[.!?]+', text): the pieces from position start on
RECURSIVE SplitTermAt(_, _, _)
SplitTermAt(s, start, acc) ==
    LET terms == {j \in start..Len(s) : s[j] \in Terminators}
    IN  IF terms = {} THEN Append(acc, SubSeq(s, start, Len(s)))
        ELSE LET i == SetMin(terms)
                 j == i + RunLen(s, i, Terminators, FALSE, -1)
             IN  SplitTermAt(s, j, Append(acc, SubSeq(s, start, i - 1)))

\* re.split(r'[.!?]+', text)
SplitTerminators(s) == SplitTermAt(s, 1, <<>>)

\* [s.strip() for s in sentences if len(s.strip()) > minLen]
StripLonger(pieces, minLen) ==
    SelectSeq([i \in 1..Len(pieces) |-> Strip(pieces[i])],
              LAMBDA x : Len(x) > minLen)

\* the sentences of a stage: split, strip, keep those longer than minLen
Segment(s, minLen) == StripLonger(SplitTerminators(s), minLen)

\* keyword in sentence_lower
Contains(s, w) ==
    \E i \in 1..(Len(s) - Len(w) + 1) :
        \A j \in 1..Len(w) : s[i + j - 1] = w[j]

\* self.legal_keywords
LegalKeywords ==
    << <<"h","e","l","d">>,
       <<"d","i","r","e","c","t","e","d">>,
       <<"g","u","i","d","e","l","i","n","e","s">>,
       <<"o","r","d","e","r","e","d">>,
       <<"r","u","l","e","d">>,
       <<"d","e","c","i","d","e","d">>,
       <<"c","o","n","c","l","u","d","e","d">>,
       <<"d","e","t","e","r","m","i","n","e","d">>,
       <<"f","o","u","n","d">>,
       <<"e","s","t","a","b","l","i","s","h","e","d">>,
       <<"d","e","c","l","a","r","e","d">>,
       <<"m","a","i","n","t","a","i","n","e","d">>,
       <<"o","b","s","e","r","v","e","d">>,
       <<"n","o","t","e","d">>,
       <<"e","m","p","h","a","s","i","z","e","d">>,
       <<"h","i","g","h","l","i","g","h","t","e","d">>,
       <<"c","l","a","r","i","f","i","e","d">>,
       <<"i","n","t","e","r","p","r","e","t","e","d">>,
       <<"c","o","n","s","t","r","u","e","d">>,
       <<"a","p","p","l","i","e","d">>,
       <<"f","o","l","l","o","w","e","d">>,
       <<"o","v","e","r","r","u","l","e","d">>,
       <<"d","i","s","t","i","n","g","u","i","s","h","e","d">>,
       <<"a","p","p","r","o","v","e","d">>,
       <<"d","i","s","a","p","p","r","o","v","e","d">>,
       <<"r","e","j","e","c","t","e","d">>,
       <<"a","l","l","o","w","e","d">>,
       <<"d","i","s","m","i","s","s","e","d">>,
       <<"q","u","a","s","h","e","d">>,
       <<"s","e","t"," ","a","s","i","d","e">>,
       <<"r","e","m","a","n","d","e","d">>,
       <<"a","f","f","i","r","m","e","d">>,
       <<"r","e","v","e","r","s","e","d">>,
       <<"m","o","d","i","f","i","e","d">>,
       <<"v","a","r","i","e","d">>,
       <<"s","u","b","s","t","i","t","u","t","e","d">> >>

\* self.court_keywords
CourtKeywords ==
    << <<"s","u","p","r","e","m","e"," ","c","o","u","r","t">>,
       <<"h","i","g","h"," ","c","o","u","r","t">>,
       <<"d","i","s","t","r","i","c","t"," ","c","o","u","r","t">>,
       <<"t","r","i","b","u","n","a","l">>,
       <<"c","o","m","m","i","s","s","i","o","n">>,
       <<"a","u","t","h","o","r","i","t","y">>,
       <<"b","o","a","r","d">>,
       <<"c","o","u","n","c","i","l">> >>

\* self.section_keywords
SectionKeywords ==
    << <<"s","e","c","t","i","o","n">>,
       <<"a","r","t","i","c","l","e">>,
       <<"c","l","a","u","s","e">>,
       <<"s","u","b","-","s","e","c","t","i","o","n">>,
       <<"p","r","o","v","i","s","o">>,
       <<"s","c","h","e","d","u","l","e">>,
       <<"a","c","t">>,
       <<"c","o","d","e">>,
       <<"r","e","g","u","l","a","t","i","o","n">>,
       <<"r","u","l","e">> >>

\* no keyword is counted
KeywordHitsNone(sl, words) == 0

\* the number of keywords of a list that occur in the lowercased sentence
KeywordHits(sl, words) == Cardinality({i \in 1..Len(words) : Contains(sl, words[i])})

MinTextLenRegex == 100   \* len(text.strip()) < 100
MinTextLenSumy == 200    \* len(text.strip()) < 200
MinSentRegex == 20       \* len(s.strip()) > 20
MinSentLeading == 50     \* len(s.strip()) > 50
MinSentFallback == 30    \* len(s.strip()) > 30
LongSentence == 100      \* len(sentence) > 100
LegalWeight == 3
CourtWeight == 2
SectionWeight == 2
CitationWeight == 3
VersusWeight == 2
JudgeWeight == 2
DateWeight == 1
LengthWeight == 1

\* \(\d{4}\)\s+\d+\s+[A-Z]+\s+\d+
CitationPattern ==
    << Lit("("), Cls(Digits, 4, 4), Lit(")"), Cls(Whitespace, 1, -1),
       Cls(Digits, 1, -1), Cls(Whitespace, 1, -1),
       Cls(Range(UpperLetters), 1, -1), Cls(Whitespace, 1, -1),
       Cls(Digits, 1, -1) >>

\* \b(vs|versus|v\.)\b
VersusPattern ==
    << WordBoundary,
       Alt(<< <<"v","s">>, <<"v","e","r","s","u","s">>, <<"v",".">> >>),
       WordBoundary >>

\* Justice\s+[A-Z]
JusticePattern ==
    << Alt(<< <<"J","u","s","t","i","c","e">> >>), Cls(Whitespace, 1, -1),
       Cls(Range(UpperLetters), 1, 1) >>

\* \d{1,2}[-/]\d{1,2}[-/]\d{4}
ScoreDatePattern ==
    << Cls(Digits, 1, 2), Cls(DateSep, 1, 1), Cls(Digits, 1, 2),
       Cls(DateSep, 1, 1), Cls(Digits, 4, 4) >>

\* the score extract_key_sentences_regex gives a sentence
Score(sentence) ==
    LET sl == Lower(sentence)
    IN  LegalWeight * KeywordHits(sl, LegalKeywords)
        + CourtWeight * KeywordHits(sl, CourtKeywords)
        + SectionWeight * KeywordHits(sl, SectionKeywords)
        + (IF HasMatch(CitationPattern, sentence, FALSE) THEN CitationWeight ELSE 0)
        + (IF HasMatch(VersusPattern, sentence, TRUE) THEN VersusWeight ELSE 0)
        + (IF HasMatch(JusticePattern, sentence, FALSE) THEN JudgeWeight ELSE 0)
        + (IF HasMatch(ScoreDatePattern, sentence, FALSE) THEN DateWeight ELSE 0)
        + (IF Len(sentence) > LongSentence THEN LengthWeight ELSE 0)

\* the scores of the sentences of the input vocabulary, computed once
ScoreTable ==
    { <<b, Score(b)>> : b \in UNION { Range(Segment(c, 0)) : c \in Chunks } }

\* Score(sentence), looked up in the table when the sentence is in it
ScoreOf(sentence) ==
    IF \E p \in ScoreTable : p[1] = sentence
    THEN (CHOOSE p \in ScoreTable : p[1] = sentence)[2]
    ELSE Score(sentence)

\* list.sort(key=score, reverse=True): a stable insertion of x into a list
\* sorted by descending score
RECURSIVE InsertByScore(_, _)
InsertByScore(sorted, x) ==
    IF sorted = <<>> THEN <<x>>
    ELSE IF Head(sorted)[2] >= x[2] THEN <<Head(sorted)>> \o InsertByScore(Tail(sorted), x)
    ELSE <<x>> \o sorted

RECURSIVE SortByScore(_, _)
SortByScore(scored, i) ==
    IF i = 0 THEN <<>> ELSE InsertByScore(SortByScore(scored, i - 1), scored[i])

\* the list left in document order: no sort at all
KeepDocumentOrder(scored) == scored

\* a sort by descending score that puts the later of two equal scores first
RankLaterFirst(scored) ==
    SortByScore([i \in 1..Len(scored) |-> scored[Len(scored) - i + 1]], Len(scored))

\* scored_sentences.sort(key=lambda x: x[1], reverse=True)
RankByScore(scored) == SortByScore(scored, Len(scored))

\* s[:n] as Python slices, also for negative n
PySliceTo(s, n) ==
    IF n >= 0 THEN Take(s, n)
    ELSE SubSeq(s, 1, IF Len(s) + n < 0 THEN 0 ELSE Len(s) + n)

\* extract_key_sentences_regex after its guard: segment, score, sort, slice
TopScoredSentences(text, maxSent) ==
    LET sentences == Segment(text, MinSentRegex)
        scored == [i \in 1..Len(sentences) |-> <<sentences[i], ScoreOf(sentences[i])>>]
        top    == PySliceTo(RankByScore(scored), maxSent)
    IN  [i \in 1..Len(top) |-> top[i][1]]

\* the heuristic stage without the test on the length of the text
ExtractKeySentencesAnyLength(text, maxSent) ==
    IF ~Truthy(text) THEN <<>> ELSE TopScoredSentences(text.s, maxSent)

\* LegalCaseSummarizer.extract_key_sentences_regex
ExtractKeySentencesRegex(text, maxSent) ==
    IF ~Truthy(text) \/ Len(Strip(text.s)) < MinTextLenRegex THEN <<>>
    ELSE TopScoredSentences(text.s, maxSent)

-----------------------------------------------------------------------------
(* The statistical ranker (the sumy library) as its caller sees it.        *)

\* the sentences of the tokenizer: a sentence ends with a run of terminal
\* punctuation that is followed by whitespace or by the end of the text, and
\* keeps that punctuation
RECURSIVE SentTokAt(_, _, _)
SentTokAt(s, start, acc) ==
    LET ends == {j \in start..Len(s) :
                    s[j] \in Terminators /\ (j = Len(s) \/ IsSpace(s[j + 1]))}
        rest == Strip(SubSeq(s, start, Len(s)))
    IN  IF ends = {} THEN (IF rest = <<>> THEN acc ELSE Append(acc, rest))
        ELSE SentTokAt(s, SetMin(ends) + 1,
                       Append(acc, Strip(SubSeq(s, start, SetMin(ends)))))

SentTokenize(s) == SentTokAt(s, 1, <<>>)

\* if not text or len(text.strip()) < 200: return []
SumyReturnsEarly(text) == ~Truthy(text) \/ Len(Strip(text.s)) < MinTextLenSumy

\* extract_summary_sumy returning sentences although the library raised
SumyOutcomesPartial(text, maxSent) ==
    IF SumyReturnsEarly(text)
    THEN {[raised |-> FALSE, sents |-> <<>>]}
    ELSE {[raised |-> r, sents |-> PySliceTo(SentTokenize(text.s), maxSent)] :
             r \in BOOLEAN}

\* what extract_summary_sumy can return: nothing for a text shorter than 200
\* characters; otherwise the sentences the summarizer rates best (any choice
\* of that many sentences, in document order), or nothing when the library
\* raises and the exception is caught
SumyOutcomes(text, maxSent) ==
    IF SumyReturnsEarly(text)
    THEN {[raised |-> FALSE, sents |-> <<>>]}
    ELSE LET toks  == SentTokenize(text.s)
             count == Len(PySliceTo(toks, maxSent))
         IN  {[raised |-> TRUE, sents |-> <<>>]}
             \cup {[raised |-> FALSE, sents |-> SubseqAt(toks, P)] :
                      P \in {Q \in SUBSET (1..Len(toks)) : Cardinality(Q) = count}}

-----------------------------------------------------------------------------
(* extract_hybrid_summary and extract_case_summary.                        *)

\* for sentence in sents: if sentence not in all_sentences and
\* len(all_sentences) < max_sentences: all_sentences.append(sentence)
RECURSIVE AddUnique(_, _, _, _)
AddUnique(all, sents, i, maxSent) ==
    IF i > Len(sents) THEN all
    ELSE AddUnique(IF sents[i] \notin Range(all) /\ Len(all) < maxSent
                   THEN Append(all, sents[i]) ELSE all,
                   sents, i + 1, maxSent)

\* the same loop without the len(all_sentences) < max_sentences test
RECURSIVE AddUniqueNoLimit(_, _, _, _)
AddUniqueNoLimit(all, sents, i, maxSent) ==
    IF i > Len(sents) THEN all
    ELSE AddUniqueNoLimit(IF sents[i] \notin Range(all)
                          THEN Append(all, sents[i]) ELSE all,
                          sents, i + 1, maxSent)

\* the sumy loop without the len(all_sentences) < max_sentences test
AddSumyNoLimit(all, sents, maxSent) == AddUniqueNoLimit(all, sents, 1, maxSent)

\* the loop that adds the sumy sentences (lines 174-176)
AddSumySentences(all, sents, maxSent) == AddUnique(all, sents, 1, maxSent)

\* what extract_hybrid_summary returns (all), with the regex sentences, the
\* length of the list after the regex and after the sumy loop, and what was
\* invoked, in order: "regex" and "sumy" for the two methods, "summarizer"
\* when the library's summarizer was run on the document, "leading" for the
\* loop over the leading sentences
HybridResult(text, maxSent, regex, afterRegex, afterSumy) ==
    [regex |-> regex,
     all |-> IF Len(afterSumy) < maxSent
             THEN AddUnique(afterSumy, Segment(text.s, MinSentLeading), 1, maxSent)
             ELSE afterSumy,
     counts |-> <<Len(afterRegex), Len(afterSumy)>>,
     calls |-> <<"regex", "sumy">>
               \o (IF SumyReturnsEarly(text) THEN <<>> ELSE <<"summarizer">>)
               \o (IF Len(afterSumy) < maxSent THEN <<"leading">> ELSE <<>>)]

\* lines 174-187, given the list after the loop over the regex sentences
HybridAfterRegex(text, maxSent, sumy, regex, afterRegex) ==
    HybridResult(text, maxSent, regex, afterRegex,
                 AddSumySentences(afterRegex, sumy, maxSent))

\* lines 166-187, given what the two methods returned
HybridCombine(text, maxSent, sumy, regex) ==
    HybridAfterRegex(text, maxSent, sumy, regex, AddUnique(<<>>, regex, 1, maxSent))

\* LegalCaseSummarizer.extract_hybrid_summary, given what sumy returned
ExtractHybridSummary(text, maxSent, sumy) ==
    HybridCombine(text, maxSent, sumy, ExtractKeySentencesRegex(text, maxSent))

\* ". ".join(summary_sentences), then a "." unless it ends with one
JoinSummary(sentences) ==
    LET joined == Join(sentences, <<".", " ">>)
    IN  IF joined # <<>> /\ joined[Len(joined)] = "." THEN joined
        ELSE joined \o <<".">>

\* the title put before the summary with nothing between them
WithTitleNoSeparator(ttl, s) == IF Truthy(ttl) THEN ttl.s \o s ELSE s

\* f"{case_title}: {summary}" when a title is given
WithTitle(ttl, s) == IF Truthy(ttl) THEN ttl.s \o <<":", " ">> \o s ELSE s

\* the result of extract_case_summary with the sentences of each stage
NoSummary ==
    [summary |-> <<>>, sentences |-> <<>>, regex |-> <<>>, all |-> <<>>,
     counts |-> NoCounts, calls |-> <<>>]

\* lines 215-223: the summary string of the sentences s2, with the record
\* of the stages
FormatSummary(ttl, h, s1, s2) ==
    [summary |-> WithTitle(ttl, JoinSummary(s2)),
     sentences |-> s2, regex |-> h.regex, all |-> h.all,
     counts |-> h.counts,
     calls |-> h.calls
               \o (IF h.all = <<>> THEN <<"regex">> ELSE <<>>)
               \o (IF s1 = <<>> THEN <<"fallback">> ELSE <<>>)]

\* lines 208-223: the last resort when s1 is empty
ComposeLastResort(text, ttl, maxSent, h, s1) ==
    FormatSummary(ttl, h, s1,
                  IF s1 = <<>>
                  THEN PySliceTo(Segment(text.s, MinSentFallback), maxSent)
                  ELSE s1)

\* lines 204-223: the regex fallback when the hybrid result h is empty
ComposeFallback(text, ttl, maxSent, h) ==
    ComposeLastResort(text, ttl, maxSent, h,
                      IF h.all = <<>> THEN ExtractKeySentencesRegex(text, maxSent)
                      ELSE h.all)

\* extract_case_summary after its guard: the fallback chain, the join and
\* the title
ComposeSummary(text, ttl, maxSent, sumy) ==
    ComposeFallback(text, ttl, maxSent, ExtractHybridSummary(text, maxSent, sumy))

\* the same without the "if not case_text" guard: an absent text is
\* summarized as the empty text
ExtractCaseSummaryUnguarded(text, ttl, maxSent, sumy) ==
    ComposeSummary(IF Truthy(text) THEN text ELSE Some(<<>>), ttl, maxSent, sumy)

\* LegalCaseSummarizer.extract_case_summary, given what sumy returned
ExtractCaseSummary(text, ttl, maxSent, sumy) ==
    IF ~Truthy(text) THEN NoSummary
    ELSE ComposeSummary(text, ttl, maxSent, sumy)

-----------------------------------------------------------------------------
(* Inputs of the summarizer.                                               *)

MaxChunks == 3
MaxMaxSentences == 4
MaxNegativeSentences == 2

CaseTexts == { Flatten(ps) : ps \in SeqsUpTo(Chunks, MaxChunks) }

CaseTitles == { None, Some(<<"R","e",":"," ","B","a","i","l">>) }

\* the state before a call whose max_sentences is drawn from counts
SumStart(counts) ==
    /\ caseText \in {None} \cup {Some(t) : t \in CaseTexts}
    /\ caseTitle \in CaseTitles
    /\ maxSentences \in counts
    /\ sumyMethod = "lsa"
    /\ sumPc = "ready"
    /\ summary = <<>>
    /\ summarySentences = <<>>
    /\ regexSentences = <<>>
    /\ sumySentences = <<>>
    /\ sumyRaised = FALSE
    /\ allSentences = <<>>
    /\ stageCounts = NoCounts
    /\ calls = <<>>
    /\ title = <<>>
    /\ date = <<>>
    /\ court = "none"
    /\ op = "init"
    /\ key = NoKey
    /\ pageText = <<>>
    /\ now = 1
    /\ bhcIds = {}
    /\ scIds = {}
    /\ MetaIdle
    /\ RestIdle

SumInit == SumStart(0..MaxMaxSentences)

\* a call with a negative max_sentences
NegInit == SumStart((0 - MaxNegativeSentences)..(0 - 1))

\* the possible results of extract_case_summary, one for each outcome of sumy
CaseSummaryOutcomes(text, ttl, maxSent) ==
    { [res |-> ExtractCaseSummary(text, ttl, maxSent, sumy.sents), sumy |-> sumy] :
         sumy \in SumyOutcomes(text, maxSent) }

\* one call of LegalCaseSummarizer.extract_case_summary
Summarize ==
    /\ sumPc = "ready"
    /\ \E o \in CaseSummaryOutcomes(caseText, caseTitle, maxSentences) :
          /\ summary' = o.res.summary
          /\ summarySentences' = o.res.sentences
          /\ regexSentences' = o.res.regex
          /\ sumySentences' = (IF Truthy(caseText) THEN o.sumy.sents ELSE <<>>)
          /\ sumyRaised' = (Truthy(caseText) /\ o.sumy.raised)
          /\ allSentences' = o.res.all
          /\ stageCounts' = o.res.counts
          /\ calls' = o.res.calls
    /\ sumPc' = "done"
    /\ UNCHANGED <<caseText, caseTitle, maxSentences, sumyMethod>>
    /\ UNCHANGED <<keyVars, ingestVars, metaVars, restVars>>

SumNext == Summarize

SpecSum == SumInit /\ [][SumNext]_vars

SpecNeg == NegInit /\ [][SumNext]_vars

-----------------------------------------------------------------------------
(* A direct call of extract_summary_sumy with a method argument.           *)

\* the methods the code names
KnownMethods == {"lsa", "lexrank", "textrank"}

\* the method arguments of the model: the three named ones and one that is not
Methods == KnownMethods \cup {"luhn"}

\* if method == 'lsa' ... elif 'lexrank' ... elif 'textrank' ... else: the
\* summarizer class the call constructs
ChooseSummarizer(method) ==
    IF method = "lsa" THEN "LsaSummarizer"
    ELSE IF method = "lexrank" THEN "LexRankSummarizer"
    ELSE IF method = "textrank" THEN "TextRankSummarizer"
    ELSE "LsaSummarizer"

\* the classes constructed by a call: none when the text is too short
SummarizersRun(text, method) ==
    IF SumyReturnsEarly(text) THEN <<>> ELSE <<ChooseSummarizer(method)>>

RankInit ==
    /\ caseText \in {None} \cup {Some(t) : t \in CaseTexts}
    /\ caseTitle = None
    /\ maxSentences \in 0..MaxMaxSentences
    /\ sumyMethod \in Methods
    /\ sumPc = "rank"
    /\ summary = <<>>
    /\ summarySentences = <<>>
    /\ regexSentences = <<>>
    /\ sumySentences = <<>>
    /\ sumyRaised = FALSE
    /\ allSentences = <<>>
    /\ stageCounts = NoCounts
    /\ calls = <<>>
    /\ title = <<>>
    /\ date = <<>>
    /\ court = "none"
    /\ op = "init"
    /\ key = NoKey
    /\ pageText = <<>>
    /\ now = 1
    /\ bhcIds = {}
    /\ scIds = {}
    /\ MetaIdle
    /\ RestIdle

\* one call of LegalCaseSummarizer.extract_summary_sumy(text, max_sentences,
\* method); the list it returns is sumySentences
RankSumy ==
    /\ sumPc = "rank"
    /\ \E o \in SumyOutcomes(caseText, maxSentences) :
          /\ sumySentences' = o.sents
          /\ sumyRaised' = o.raised
    /\ calls' = SummarizersRun(caseText, sumyMethod)
    /\ sumPc' = "ranked"
    /\ UNCHANGED <<caseText, caseTitle, maxSentences, sumyMethod, summary,
                   summarySentences, regexSentences, allSentences, stageCounts>>
    /\ UNCHANGED <<keyVars, ingestVars, metaVars, restVars>>

RankNext == RankSumy

SpecSumy == RankInit /\ [][RankNext]_vars

-----------------------------------------------------------------------------
(* Concurrent calls of extract_case_summary on one LegalCaseSummarizer, as *)
(* worker threads make them.  A call takes its steps in the order of the   *)
(* code: the regex stage, the sumy stage, then the combination and the     *)
(* formatting; the steps of different calls interleave.                    *)

MaxCalls == 2

Calls == 1..MaxCalls

\* def extract_case_summary(self, case_text, case_title=None, max_sentences=4)
DefaultMaxSentences == 4

ConcTexts ==
    { None, Some(ChunkLong \o ChunkPlain \o ChunkEllipsis), Some(ChunkShort \o ChunkThirty) }

\* the locals of every call in the frame of the first call
FrameShared(c) == 1

\* the frame that holds the locals of call c: each call has its own
Frame(c) == c

\* the fields of the object after extract_summary_sumy: parser and summarizer
\* are locals, and summarizer.stop_words is set on the local summarizer
FieldsAfterSumy(fields) == fields

ConcInit ==
    /\ concFields = SummarizerFields
    /\ concText \in [Calls -> ConcTexts]
    /\ concTitle \in [Calls -> CaseTitles]
    /\ concPc = [c \in Calls |-> "ready"]
    /\ concRegex = [c \in Calls |-> <<>>]
    /\ concSumy = [c \in Calls |-> <<>>]
    /\ concOut = [c \in Calls |-> <<>>]
    /\ concOverlapped = FALSE
    /\ StoreIdle
    /\ AutoIdle
    /\ MetaIdle
    /\ SumIdle
    /\ title = <<>>
    /\ date = <<>>
    /\ court = "none"
    /\ op = "init"
    /\ key = NoKey
    /\ pageText = <<>>
    /\ now = 1
    /\ bhcIds = {}
    /\ scIds = {}

\* whether a call other than c is between its first step and its return
OthersRunning(c) == \E d \in Calls \ {c} : concPc[d] \in {"regex", "sumy"}

\* if not case_text: return ""
ConcReturnEmpty(c) ==
    /\ concPc[c] = "ready"
    /\ ~Truthy(concText[c])
    /\ concPc' = [concPc EXCEPT ![c] = "done"]
    /\ concOut' = [concOut EXCEPT ![c] = <<>>]
    /\ concOverlapped' = (concOverlapped \/ OthersRunning(c))
    /\ UNCHANGED <<concFields, concText, concTitle, concRegex, concSumy>>
    /\ UNCHANGED <<keyVars, ingestVars, sumVars, metaVars, storeVars, autoVars>>

\* regex_sentences = self.extract_key_sentences_regex(text, max_sentences)
ConcRegex(c) ==
    /\ concPc[c] = "ready"
    /\ Truthy(concText[c])
    /\ concPc' = [concPc EXCEPT ![c] = "regex"]
    /\ concRegex' = [concRegex EXCEPT ![Frame(c)] =
                        ExtractKeySentencesRegex(concText[c], DefaultMaxSentences)]
    /\ concOverlapped' = (concOverlapped \/ OthersRunning(c))
    /\ UNCHANGED <<concFields, concText, concTitle, concSumy, concOut>>
    /\ UNCHANGED <<keyVars, ingestVars, sumVars, metaVars, storeVars, autoVars>>

\* sumy_sentences = self.extract_summary_sumy(text, max_sentences, 'lsa')
ConcSumy(c) ==
    /\ concPc[c] = "regex"
    /\ concPc' = [concPc EXCEPT ![c] = "sumy"]
    /\ \E o \in SumyOutcomes(concText[c], DefaultMaxSentences) :
          concSumy' = [concSumy EXCEPT ![Frame(c)] = o.sents]
    /\ concFields' = FieldsAfterSumy(concFields)
    /\ concOverlapped' = (concOverlapped \/ OthersRunning(c))
    /\ UNCHANGED <<concText, concTitle, concRegex, concOut>>
    /\ UNCHANGED <<keyVars, ingestVars, sumVars, metaVars, storeVars, autoVars>>

\* the rest of extract_hybrid_summary and of extract_case_summary, from the
\* locals regex_sentences and sumy_sentences to the summary returned
ConcCompose(c) ==
    /\ concPc[c] = "sumy"
    /\ concPc' = [concPc EXCEPT ![c] = "done"]
    /\ concOut' = [concOut EXCEPT ![c] =
                      ComposeFallback(concText[c], concTitle[c], DefaultMaxSentences,
                                      HybridCombine(concText[c], DefaultMaxSentences,
                                                    concSumy[Frame(c)],
                                                    concRegex[Frame(c)])).summary]
    /\ concOverlapped' = (concOverlapped \/ OthersRunning(c))
    /\ UNCHANGED <<concFields, concText, concTitle, concRegex, concSumy>>
    /\ UNCHANGED <<keyVars, ingestVars, sumVars, metaVars, storeVars, autoVars>>

ConcNext ==
    \E c \in Calls :
        ConcReturnEmpty(c) \/ ConcRegex(c) \/ ConcSumy(c) \/ ConcCompose(c)

SpecConc == ConcInit /\ [][ConcNext]_vars

-----------------------------------------------------------------------------
(* Regular expressions with groups, as Python's re module matches them: a  *)
(* pattern is a program of instructions run by a backtracking matcher.     *)
(* "char" consumes one character of a class; "run" consumes the longest    *)
(* run of characters of a class, giving characters back down to x of them; *)
(* "lit" consumes a literal string; "split" tries the branch at offset x   *)
(* and, when that fails, the branch at offset y; "jmp" continues at offset *)
(* x; "save" records the position as the start (slot 1) or the end         *)
(* (slot 2) of group 1.  The program matches when it runs off its end.     *)

\* [S]
AnyOf(S) == << [op |-> "char", set |-> S, str |-> <<>>, x |-> 0, y |-> 0] >>

\* [S]+ and [S]* (greedy): at least lo characters of S
AtLeast(S, lo) == << [op |-> "run", set |-> S, str |-> <<>>, x |-> lo, y |-> 0] >>

\* a literal string
Chars(str) == << [op |-> "lit", set |-> {}, str |-> str, x |-> 0, y |-> 0] >>

\* p* (greedy)
ZeroOrMore(p) ==
    << [op |-> "split", set |-> {}, str |-> <<>>, x |-> 1, y |-> Len(p) + 2] >>
    \o p
    \o << [op |-> "jmp", set |-> {}, str |-> <<>>, x |-> 0 - (Len(p) + 1), y |-> 0] >>

\* p? (greedy)
Optional(p) == << [op |-> "split", set |-> {}, str |-> <<>>, x |-> 1, y |-> Len(p) + 1] >> \o p

\* (p), the capturing group
Capture(p) ==
    << [op |-> "save", set |-> {}, str |-> <<>>, x |-> 1, y |-> 0] >>
    \o p
    \o << [op |-> "save", set |-> {}, str |-> <<>>, x |-> 2, y |-> 0] >>

NoMatch == [end |-> 0, caps |-> <<0, 0>>]

\* the match of instructions pc.. of prog at position i of s, as the
\* backtracking matcher finds it: the position after the match and the
\* bounds of group 1; NoMatch when there is none
RECURSIVE Exec(_, _, _, _, _, _)
RECURSIVE ExecRun(_, _, _, _, _, _, _)
Exec(prog, pc, s, i, caps, ic) ==
    IF pc > Len(prog) THEN [end |-> i, caps |-> caps]
    ELSE IF prog[pc].op = "char"
         THEN IF i <= Len(s) /\ InClass(s[i], prog[pc].set, ic)
              THEN Exec(prog, pc + 1, s, i + 1, caps, ic)
              ELSE NoMatch
    ELSE IF prog[pc].op = "run"
         THEN ExecRun(prog, pc, s, i, caps, ic, RunLen(s, i, prog[pc].set, ic, 0 - 1))
    ELSE IF prog[pc].op = "lit"
         THEN IF LitAt(s, i, prog[pc].str, ic)
              THEN Exec(prog, pc + 1, s, i + Len(prog[pc].str), caps, ic)
              ELSE NoMatch
    ELSE IF prog[pc].op = "split"
         THEN LET r == Exec(prog, pc + prog[pc].x, s, i, caps, ic)
              IN  IF r.end # 0 THEN r
                  ELSE Exec(prog, pc + prog[pc].y, s, i, caps, ic)
    ELSE IF prog[pc].op = "jmp"
         THEN Exec(prog, pc + prog[pc].x, s, i, caps, ic)
    ELSE Exec(prog, pc + 1, s, i, [caps EXCEPT ![prog[pc].x] = i], ic)

\* the run instruction at pc having consumed n characters
ExecRun(prog, pc, s, i, caps, ic, n) ==
    IF n < prog[pc].x THEN NoMatch
    ELSE LET r == Exec(prog, pc + 1, s, i + n, caps, ic)
         IN  IF r.end # 0 THEN r
             ELSE ExecRun(prog, pc, s, i, caps, ic, n - 1)

\* re.findall for a pattern with one group: the text of group 1 of every
\* match, scanning from position pos, each scan resuming where the previous
\* match ended
RECURSIVE FindAllGroup(_, _, _, _)
FindAllGroup(prog, s, pos, ic) ==
    IF pos > Len(s) + 1 THEN <<>>
    ELSE LET r == Exec(prog, 1, s, pos, <<0, 0>>, ic)
         IN  IF r.end = 0 THEN FindAllGroup(prog, s, pos + 1, ic)
             ELSE <<SubSeq(s, r.caps[1], r.caps[2] - 1)>>
                  \o FindAllGroup(prog, s, IF r.end = pos THEN pos + 1 ELSE r.end, ic)

\* re.findall for a pattern with no group: the text of every match
RECURSIVE FindAll(_, _, _, _)
FindAll(re, s, pos, ic) ==
    IF pos > Len(s) + 1 THEN <<>>
    ELSE LET e == MatchFrom(re, 1, s, pos, ic)
         IN  IF e = 0 THEN FindAll(re, s, pos + 1, ic)
             ELSE <<SubSeq(s, pos, e - 1)>>
                  \o FindAll(re, s, IF e = pos THEN pos + 1 ELSE e, ic)

\* judges = []; for pattern in patterns: judges.extend(re.findall(...))
RECURSIVE ExtendGroups(_, _, _, _)
ExtendGroups(progs, k, s, ic) ==
    IF k > Len(progs) THEN <<>>
    ELSE FindAllGroup(progs[k], s, 1, ic) \o ExtendGroups(progs, k + 1, s, ic)

\* sections = []; for pattern in patterns: sections.extend(re.findall(...))
RECURSIVE ExtendMatches(_, _, _, _)
ExtendMatches(pats, k, s, ic) ==
    IF k > Len(pats) THEN <<>>
    ELSE FindAll(pats[k], s, 1, ic) \o ExtendMatches(pats, k + 1, s, ic)

\* list(set(xs)) losing elements: any list of distinct elements of xs
ListOfSubset(xs) ==
    UNION { {f \in [1..k -> Range(xs)] : \A i, j \in 1..k : f[i] = f[j] => i = j} :
               k \in 0..Cardinality(Range(xs)) }

\* list(set(xs)): the distinct elements of xs in an order the language does
\* not specify
ListOfSet(xs) ==
    {f \in [1..Cardinality(Range(xs)) -> Range(xs)] :
        \A i, j \in 1..Cardinality(Range(xs)) : f[i] = f[j] => i = j}

-----------------------------------------------------------------------------
(* Metadata extraction of the scrapers.                                    *)

\* [A-Z][a-z]+(?:\s+[A-Z][a-z]+)*
JudgeNameWords ==
    AnyOf(Range(UpperLetters)) \o AtLeast(Range(LowerLetters), 1)
    \o ZeroOrMore(AtLeast(Whitespace, 1) \o AnyOf(Range(UpperLetters))
                  \o AtLeast(Range(LowerLetters), 1))

\* BHCJudgmentScraper.extract_judges: judge_patterns, in order
BhcJudgePatterns ==
    << \* Hon\'?ble\s+(?:Mr\.?\s+)?Justice\s+([A-Z][a-z]+(?:\s+[A-Z][a-z]+)*)
       Chars(<<"H","o","n">>) \o Optional(Chars(<<"'">>)) \o Chars(<<"b","l","e">>)
       \o AtLeast(Whitespace, 1)
       \o Optional(Chars(<<"M","r">>) \o Optional(Chars(<<".">>)) \o AtLeast(Whitespace, 1))
       \o Chars(<<"J","u","s","t","i","c","e">>) \o AtLeast(Whitespace, 1)
       \o Capture(JudgeNameWords),
       \* Justice\s+([A-Z][a-z]+(?:\s+[A-Z][a-z]+)*)
       Chars(<<"J","u","s","t","i","c","e">>) \o AtLeast(Whitespace, 1) \o Capture(JudgeNameWords),
       \* J\.\s*([A-Z][a-z]+(?:\s+[A-Z][a-z]+)*)
       Chars(<<"J",".">>) \o AtLeast(Whitespace, 0) \o Capture(JudgeNameWords),
       \* Coram\s*:\s*([A-Z][a-z]+(?:\s+[A-Z][a-z]+)*)
       Chars(<<"C","o","r","a","m">>) \o AtLeast(Whitespace, 0) \o Chars(<<":">>)
       \o AtLeast(Whitespace, 0) \o Capture(JudgeNameWords) >>

\* the list of matches BHCJudgmentScraper.extract_judges collects
\* (re.findall with re.IGNORECASE)
BhcJudgeMatches(pageTxt) == ExtendGroups(BhcJudgePatterns, 1, pageTxt, TRUE)

\* BHCJudgmentScraper.extract_judges: the lists it can return
BhcExtractJudges(pageTxt) ==
    IF BhcJudgeMatches(pageTxt) # <<>> THEN ListOfSet(BhcJudgeMatches(pageTxt))
    ELSE { << <<"B","o","m","b","a","y"," ","H","i","g","h"," ","C","o","u","r","t">> >> }

\* SCJudgmentScraper.extract_judges: judge_patterns, in order
ScJudgePatterns ==
    << \* Justice\s+[A-Z][a-z]+
       << Alt(<< <<"J","u","s","t","i","c","e">> >>), Cls(Whitespace, 1, -1),
          Cls(Range(UpperLetters), 1, 1), Cls(Range(LowerLetters), 1, -1) >>,
       \* Hon\'ble\s+Justice\s+[A-Z][a-z]+
       << Alt(<< <<"H","o","n","'","b","l","e">> >>), Cls(Whitespace, 1, -1), Alt(<< <<"J","u","s","t","i","c","e">> >>),
          Cls(Whitespace, 1, -1),
          Cls(Range(UpperLetters), 1, 1), Cls(Range(LowerLetters), 1, -1) >>,
       \* Mr\.\s+Justice\s+[A-Z][a-z]+
       << Alt(<< <<"M","r",".">> >>), Cls(Whitespace, 1, -1), Alt(<< <<"J","u","s","t","i","c","e">> >>),
          Cls(Whitespace, 1, -1),
          Cls(Range(UpperLetters), 1, 1), Cls(Range(LowerLetters), 1, -1) >> >>

\* the list of matches SCJudgmentScraper.extract_judges collects
\* (re.findall, case-sensitive)
ScJudgeMatches(pageTxt) == ExtendMatches(ScJudgePatterns, 1, pageTxt, FALSE)

\* SCJudgmentScraper.extract_judges: the lists it can return
ScExtractJudges(pageTxt) ==
    IF ScJudgeMatches(pageTxt) # <<>> THEN ListOfSet(ScJudgeMatches(pageTxt))
    ELSE { << <<"U","n","k","n","o","w","n"," ","J","u","d","g","e">> >> }

\* BHCJudgmentScraper.extract_citation: citation_patterns, in order
BhcCitationPatterns ==
    << \* \([0-9]{4}\)\s*[A-Z]+\s+[0-9]+
       << Lit("("), Cls(Digits, 4, 4), Lit(")"), Cls(Whitespace, 0, -1),
          Cls(Range(UpperLetters), 1, -1), Cls(Whitespace, 1, -1),
          Cls(Digits, 1, -1) >>,
       \* [A-Z]+\s+[0-9]+\s*\([0-9]{4}\)
       << Cls(Range(UpperLetters), 1, -1), Cls(Whitespace, 1, -1),
          Cls(Digits, 1, -1), Cls(Whitespace, 0, -1),
          Lit("("), Cls(Digits, 4, 4), Lit(")") >>,
       \* [A-Z]+\s+[0-9]+/[0-9]+
       << Cls(Range(UpperLetters), 1, -1), Cls(Whitespace, 1, -1),
          Cls(Digits, 1, -1), Lit("/"), Cls(Digits, 1, -1) >>,
       \* WP\s+[0-9]+/[0-9]+
       << Alt(<< <<"W","P">> >>), Cls(Whitespace, 1, -1),
          Cls(Digits, 1, -1), Lit("/"), Cls(Digits, 1, -1) >>,
       \* CRL\s+[0-9]+/[0-9]+
       << Alt(<< <<"C","R","L">> >>), Cls(Whitespace, 1, -1),
          Cls(Digits, 1, -1), Lit("/"), Cls(Digits, 1, -1) >> >>

\* the leftmost match of any of the patterns pats, else ""
EarliestMatch(pats, s, ic) ==
    IF \A k \in 1..Len(pats) : ~HasMatch(pats[k], s, ic) THEN <<>>
    ELSE FirstMatch(
             pats[CHOOSE k \in 1..Len(pats) :
                     /\ HasMatch(pats[k], s, ic)
                     /\ \A j \in 1..Len(pats) :
                            HasMatch(pats[j], s, ic) =>
                                \/ Search(pats[k], s, ic)[1] < Search(pats[j], s, ic)[1]
                                \/ Search(pats[k], s, ic)[1] = Search(pats[j], s, ic)[1]
                                   /\ k <= j],
             s, ic)

\* extract_citation returning the match that comes first in the text
BhcExtractCitationEarliest(pageTxt) == EarliestMatch(BhcCitationPatterns, pageTxt, FALSE)

\* BHCJudgmentScraper.extract_citation: matches[0] of the first pattern
\* that matches (re.findall, case-sensitive), else ""
BhcExtractCitation(pageTxt) ==
    FirstPatternMatch(BhcCitationPatterns, 1, pageTxt, FALSE, <<>>)

\* SCJudgmentScraper.extract_citation: citation_patterns, in order
ScCitationPatterns ==
    << \* \(\d{4}\)\s+\d+\s+[A-Z]+\s+\d+
       << Lit("("), Cls(Digits, 4, 4), Lit(")"), Cls(Whitespace, 1, -1),
          Cls(Digits, 1, -1), Cls(Whitespace, 1, -1),
          Cls(Range(UpperLetters), 1, -1), Cls(Whitespace, 1, -1),
          Cls(Digits, 1, -1) >>,
       \* [A-Z]+\s+\d+/\d+
       << Cls(Range(UpperLetters), 1, -1), Cls(Whitespace, 1, -1),
          Cls(Digits, 1, -1), Lit("/"), Cls(Digits, 1, -1) >>,
       \* \(\d{4}\)\s+\d+\s+[A-Z]+
       << Lit("("), Cls(Digits, 4, 4), Lit(")"), Cls(Whitespace, 1, -1),
          Cls(Digits, 1, -1), Cls(Whitespace, 1, -1),
          Cls(Range(UpperLetters), 1, -1) >> >>

\* SCJudgmentScraper.extract_citation: match.group() of the first pattern
\* that re.search finds (case-sensitive), else ""
ScExtractCitation(pageTxt) ==
    FirstPatternMatch(ScCitationPatterns, 1, pageTxt, FALSE, <<>>)

\* extract_referenced_sections: section_patterns, in order
SectionPatterns ==
    << \* Section\s+[0-9]+[A-Z]*\s+of\s+[A-Z]+
       << Alt(<< <<"S","e","c","t","i","o","n">> >>), Cls(Whitespace, 1, -1), Cls(Digits, 1, -1),
          Cls(Range(UpperLetters), 0, -1), Cls(Whitespace, 1, -1),
          Alt(<< <<"o","f">> >>), Cls(Whitespace, 1, -1),
          Cls(Range(UpperLetters), 1, -1) >>,
       \* [A-Z]+\s+Section\s+[0-9]+[A-Z]*
       << Cls(Range(UpperLetters), 1, -1), Cls(Whitespace, 1, -1),
          Alt(<< <<"S","e","c","t","i","o","n">> >>), Cls(Whitespace, 1, -1), Cls(Digits, 1, -1),
          Cls(Range(UpperLetters), 0, -1) >>,
       \* [A-Z]{2,}\s+[0-9]+[A-Z]*
       << Cls(Range(UpperLetters), 2, -1), Cls(Whitespace, 1, -1),
          Cls(Digits, 1, -1), Cls(Range(UpperLetters), 0, -1) >> >>

\* the list of matches extract_referenced_sections collects
\* (re.findall with re.IGNORECASE)
SectionMatches(text) == ExtendMatches(SectionPatterns, 1, text, TRUE)

\* extract_referenced_sections: the lists it can return
ExtractReferencedSections(text) ==
    IF text = <<>> THEN { <<>> } ELSE ListOfSet(SectionMatches(text))

\* generate_tags: legal_terms
LegalTerms ==
    << <<"b","a","i","l">>, <<"a","n","t","i","c","i","p","a","t","o","r","y">>, <<"c","o","n","s","t","i","t","u","t","i","o","n","a","l">>, <<"c","r","i","m","i","n","a","l">>, <<"c","i","v","i","l">>,
       <<"w","r","i","t">>, <<"p","e","t","i","t","i","o","n">>, <<"a","p","p","e","a","l">>, <<"r","e","v","i","s","i","o","n">>, <<"r","e","v","i","e","w">>,
       <<"4","9","8","A">>, <<"I","P","C">>, <<"C","r","P","C">>, <<"C","P","C">>, <<"C","o","n","s","t","i","t","u","t","i","o","n">> >>

\* for term in legal_terms: if term.lower() in combined_text: tags.append(term)
RECURSIVE TagsFrom(_, _)
TagsFrom(combined, k) ==
    IF k > Len(LegalTerms) THEN <<>>
    ELSE (IF Contains(combined, Lower(LegalTerms[k])) THEN <<LegalTerms[k]>> ELSE <<>>)
         \o TagsFrom(combined, k + 1)

\* generate_tags(title, text)
GenerateTags(ttl, text) == TagsFrom(Lower(ttl \o <<" ">> \o text), 1)

\* SCJudgmentScraper.generate_tags: legal_areas, in the order of the dict
ScLegalAreas ==
    << [area |-> <<"c","o","n","s","t","i","t","u","t","i","o","n","a","l"," ","l","a","w">>,
        keywords |-> << <<"c","o","n","s","t","i","t","u","t","i","o","n">>, <<"f","u","n","d","a","m","e","n","t","a","l"," ","r","i","g","h","t","s">>, <<"a","r","t","i","c","l","e">> >>],
       [area |-> <<"c","r","i","m","i","n","a","l"," ","l","a","w">>,
        keywords |-> << <<"c","r","i","m","i","n","a","l">>, <<"p","e","n","a","l">>, <<"o","f","f","e","n","c","e">>, <<"p","u","n","i","s","h","m","e","n","t">> >>],
       [area |-> <<"c","i","v","i","l"," ","l","a","w">>,
        keywords |-> << <<"c","i","v","i","l">>, <<"c","o","n","t","r","a","c","t">>, <<"t","o","r","t">>, <<"p","r","o","p","e","r","t","y">> >>],
       [area |-> <<"f","a","m","i","l","y"," ","l","a","w">>,
        keywords |-> << <<"m","a","r","r","i","a","g","e">>, <<"d","i","v","o","r","c","e">>, <<"c","u","s","t","o","d","y">>, <<"f","a","m","i","l","y">> >>],
       [area |-> <<"c","o","m","m","e","r","c","i","a","l"," ","l","a","w">>,
        keywords |-> << <<"c","o","m","m","e","r","c","i","a","l">>, <<"b","u","s","i","n","e","s","s">>, <<"c","o","m","p","a","n","y">>, <<"c","o","r","p","o","r","a","t","e">> >>],
       [area |-> <<"a","d","m","i","n","i","s","t","r","a","t","i","v","e"," ","l","a","w">>,
        keywords |-> << <<"a","d","m","i","n","i","s","t","r","a","t","i","v","e">>, <<"g","o","v","e","r","n","m","e","n","t">>, <<"p","u","b","l","i","c">> >>] >>

\* for area, keywords in legal_areas.items():
\*     if any(keyword in combined_text for keyword in keywords): tags.append(area)
RECURSIVE ScAreaTags(_, _)
ScAreaTags(combined, k) ==
    IF k > Len(ScLegalAreas) THEN <<>>
    ELSE (IF \E j \in 1..Len(ScLegalAreas[k].keywords) :
                Contains(combined, ScLegalAreas[k].keywords[j])
          THEN <<ScLegalAreas[k].area>> ELSE <<>>)
         \o ScAreaTags(combined, k + 1)

\* SCJudgmentScraper.generate_tags(title, text)
ScGenerateTags(ttl, text) ==
    << <<"s","u","p","r","e","m","e"," ","c","o","u","r","t">> >> \o ScAreaTags(Lower(ttl \o <<" ">> \o text), 1)

\* the fields judges, citation, referenced_sections and tags of the
\* judgment document extract_judgment_info builds
BhcMetadata(judges, citation, sections, tags) ==
    [judges |-> judges, citation |-> citation, sections |-> sections, tags |-> tags]

NoMetadata == [judges |-> <<>>, citation |-> <<>>, sections |-> <<>>, tags |-> <<>>]

-----------------------------------------------------------------------------
(* The judgments of the model: pages naming judges and a case number, and  *)
(* the text of their PDF.                                                   *)

MaxPageParts == 2   \* a page is a concatenation of at most this many parts
MaxRuns == 2        \* the extraction is repeated at most this many times

JudgePrasadAnd == <<"J","u","s","t","i","c","e"," ","P","r","a","s","a","d"," ","a","n","d"," ">>
JudgeGhoseComma == <<"J","u","s","t","i","c","e"," ","G","h","o","s","e",","," ">>
HonbleJudgePrasad == <<"H","o","n","'","b","l","e"," ","J","u","s","t","i","c","e"," ","P","r","a","s","a","d","."," ">>
MrJudgeGhose == <<"M","r","."," ","J","u","s","t","i","c","e"," ","G","h","o","s","e","\n">>
WritNumber == <<"W","P"," ","1","2","/","2","0","2","0"," ">>

ReporterCitations == <<"(","2","0","1","4",")"," ","8"," ","S","C","C"," ","2","7","3"," ","(","2","0","2","0",")"," ","B","O","M"," ","1","2"," ">>

PageParts ==
    {JudgePrasadAnd, JudgeGhoseComma, HonbleJudgePrasad, MrJudgeGhose, WritNumber,
     ReporterCitations}

MetaPages == { Flatten(ps) : ps \in SeqsUpTo(PageParts, MaxPageParts) }

PdfTexts == { <<>>, <<"S","e","c","t","i","o","n"," ","4","3","8"," ","o","f"," ","C","r","P","C"," ","b","a","i","l">>, <<"I","P","C"," ","4","9","8","A"," ","a","p","p","e","a","l">> }

MetaTitles == { <<"R","e",":"," ","B","a","i","l">>, <<"C","r","i","m","i","n","a","l"," ","A","p","p","e","a","l">> }

\* what the extractors return for the judgments of the model
BhcJudgesOfPage == [p \in MetaPages |-> BhcExtractJudges(p)]

ScJudgesOfPage == [p \in MetaPages |-> ScExtractJudges(p)]

BhcCitationOfPage == [p \in MetaPages |-> BhcExtractCitation(p)]

SectionsOfText == [t \in PdfTexts |-> ExtractReferencedSections(t)]

TagsOfJudgment == [d \in MetaTitles \X PdfTexts |-> GenerateTags(d[1], d[2])]

ScCitationOfPage == [p \in MetaPages |-> ScExtractCitation(p)]

ScTagsOfJudgment == [d \in MetaTitles \X PdfTexts |-> ScGenerateTags(d[1], d[2])]

MetaInit ==
    /\ metaText \in MetaPages
    /\ metaPdfText \in PdfTexts
    /\ metaTitle \in MetaTitles
    /\ metaFirst = NoMetadata
    /\ metaLast = NoMetadata
    /\ metaRuns = 0
    /\ scJudges = <<>>
    /\ scCitation = <<>>
    /\ scTags = <<>>
    /\ metaScraper \in {"bhc", "sc"}
    /\ RestIdle
    /\ title = <<>>
    /\ date = <<>>
    /\ court = "none"
    /\ op = "init"
    /\ key = NoKey
    /\ pageText = <<>>
    /\ now = 1
    /\ bhcIds = {}
    /\ scIds = {}
    /\ SumIdle

\* one run of BHCJudgmentScraper.extract_judgment_info on the judgment, as
\* far as judges, citation, referenced_sections and tags go
BhcExtractMetadata ==
    /\ metaScraper = "bhc"
    /\ metaRuns < MaxRuns
    /\ \E judges \in BhcJudgesOfPage[metaText],
          sections \in SectionsOfText[metaPdfText] :
          /\ metaLast' = BhcMetadata(judges, BhcCitationOfPage[metaText], sections,
                                     TagsOfJudgment[<<metaTitle, metaPdfText>>])
          /\ metaFirst' = IF metaRuns = 0 THEN metaLast' ELSE metaFirst
    /\ metaRuns' = metaRuns + 1
    /\ UNCHANGED <<metaText, metaPdfText, metaTitle, scJudges, scCitation, scTags,
                   metaScraper>>
    /\ UNCHANGED <<keyVars, ingestVars, sumVars, restVars>>

\* one call of SCJudgmentScraper.extract_judges on the page of the judgment
ScExtractJudgesOfPage ==
    /\ metaScraper = "sc"
    /\ scJudges = <<>>
    /\ scJudges' \in ScJudgesOfPage[metaText]
    /\ UNCHANGED <<metaText, metaPdfText, metaTitle, metaFirst, metaLast, metaRuns,
                   scCitation, scTags, metaScraper>>
    /\ UNCHANGED <<keyVars, ingestVars, sumVars, restVars>>

\* the citation and the tags SCJudgmentScraper.extract_judgment_info puts in
\* the judgment document
ScExtractCitationTags ==
    /\ metaScraper = "sc"
    /\ scTags = <<>>
    /\ scCitation' = ScCitationOfPage[metaText]
    /\ scTags' = ScTagsOfJudgment[<<metaTitle, metaPdfText>>]
    /\ UNCHANGED <<metaText, metaPdfText, metaTitle, metaFirst, metaLast, metaRuns,
                   scJudges, metaScraper>>
    /\ UNCHANGED <<keyVars, ingestVars, sumVars, restVars>>

MetaNext == BhcExtractMetadata \/ ScExtractJudgesOfPage \/ ScExtractCitationTags

SpecMeta == MetaInit /\ [][MetaNext]_vars

-----------------------------------------------------------------------------
(* The summarizer as specified: fragments and stages written over the      *)
(* positions of the text, independently of the split/strip pipeline.       *)

\* the positions that delimit fragments: before the text, every terminal
\* punctuation mark, after the text
SpecCuts(t) == {0, Len(t) + 1} \cup {j \in 1..Len(t) : t[j] \in Terminators}

\* the trimmed fragment that starts after the cut a
SpecFragmentAt(t, a) ==
    Strip(SubSeq(t, a + 1, SetMin({b \in SpecCuts(t) : b > a}) - 1))

\* the cuts that start a fragment longer than minLen
SpecFragmentStarts(t, minLen) ==
    {a \in SpecCuts(t) \ {Len(t) + 1} : Len(SpecFragmentAt(t, a)) > minLen}

\* the fragments longer than minLen, in document order
SpecFragments(t, minLen) ==
    LET starts == SpecFragmentStarts(t, minLen)
    IN  [k \in 1..Cardinality(starts) |-> SpecFragmentAt(t, KthOf(starts, k))]

\* the first occurrence of each element of s, in order
SpecFirstOccurrences(s) ==
    SubseqAt(s, {i \in 1..Len(s) : \A j \in 1..(i - 1) : s[j] # s[i]})

\* how often x occurs in s
SpecCount(s, x) == Cardinality({i \in 1..Len(s) : s[i] = x})

\* sel holds the k best-scored of the fragments frs (all of them when there
\* are fewer), best first
SpecIsTopScored(sel, frs, k) ==
    \E P \in SUBSET (1..Len(frs)) :
        /\ Cardinality(P) = Min(k, Len(frs))
        /\ Len(sel) = Cardinality(P)
        /\ \A x \in Range(sel) : SpecCount(sel, x) = SpecCount(SubseqAt(frs, P), x)
        /\ \A i \in 1..(Len(sel) - 1) : ScoreOf(sel[i]) >= ScoreOf(sel[i + 1])
        /\ \A i \in P : \A j \in (1..Len(frs)) \ P : ScoreOf(frs[i]) >= ScoreOf(frs[j])

\* a sentence without its trailing whitespace and terminal punctuation
RECURSIVE SpecBare(_)
SpecBare(s) ==
    IF s # <<>> /\ (s[Len(s)] \in Terminators \/ IsSpace(s[Len(s)]))
    THEN SpecBare(SubSeq(s, 1, Len(s) - 1))
    ELSE LStrip(s)

\* extract_case_summary has returned for a text that is not empty
Summarized == sumPc = "done" /\ Truthy(caseText)

-----------------------------------------------------------------------------
(* Claims about the summarizer.                                            *)

\* C4: for every non-empty text the summary is a non-empty string that ends
\* with exactly one period, never with two or more consecutive periods.
C4_EndsWithOnePeriod ==
    Summarized =>
        /\ summary # <<>>
        /\ summary[Len(summary)] = "."
        /\ (Len(summary) >= 2 => summary[Len(summary) - 1] # ".")

\* C5: the sentences extract_hybrid_summary selects are the top
\* heuristic-scored sentences, then the ranker's sentences, then the leading
\* sentences longer than 50 characters, each taken once and only while fewer
\* than max_sentences are collected; never more than max_sentences.
C5_StagesInOrder ==
    Summarized =>
        LET t == caseText.s
            candidates == regexSentences \o sumySentences
                             \o SpecFragments(t, MinSentLeading)
        IN  /\ allSentences = Take(SpecFirstOccurrences(candidates), maxSentences)
            /\ Len(allSentences) <= maxSentences
            /\ IF Len(Strip(t)) < MinTextLenRegex THEN regexSentences = <<>>
               ELSE SpecIsTopScored(regexSentences,
                                    SpecFragments(t, MinSentRegex), maxSentences)

\* C5 witness: the heuristic stage and the ranker both contributed, the limit
\* was reached, and a ranker sentence was left out because of it.
C5_Witness ==
    /\ Summarized
    /\ stageCounts[1] > 0
    /\ stageCounts[2] > stageCounts[1]
    /\ Len(allSentences) = maxSentences
    /\ \E i \in 1..Len(sumySentences) : sumySentences[i] \notin Range(allSentences)
    /\ \E i \in 1..(Len(regexSentences) - 1) :
          ScoreOf(regexSentences[i]) > ScoreOf(regexSentences[i + 1])

\* C6 as stated: the statistical ranker is run only when the heuristic stage
\* collected fewer than max_sentences unique sentences.
C6_RankerOnlyIfUnderSupplied ==
    (sumPc = "done" /\ "summarizer" \in Range(calls)) =>
        stageCounts[1] < maxSentences

\* C6 amended: extract_summary_sumy is always called right after the
\* heuristic stage, and runs the ranker whenever the text has at least 200
\* characters, however many sentences the heuristic stage supplied; the
\* ranker's sentences are appended only when the heuristic stage collected
\* fewer than max_sentences unique sentences.
C6_RankerAlwaysRunAddsOnlyIfShort ==
    Summarized =>
        /\ Len(calls) >= 2
        /\ calls[1] = "regex"
        /\ calls[2] = "sumy"
        /\ (Len(Strip(caseText.s)) >= MinTextLenSumy <=> "summarizer" \in Range(calls))
        /\ (stageCounts[1] >= maxSentences =>
               /\ stageCounts[2] = stageCounts[1]
               /\ allSentences = SpecFirstOccurrences(regexSentences))

\* C6 witness: the heuristic stage supplied max_sentences sentences, the
\* ranker ran all the same and returned sentences, none of which was added.
C6_Witness ==
    /\ Summarized
    /\ maxSentences > 0
    /\ stageCounts[1] = maxSentences
    /\ "summarizer" \in Range(calls)
    /\ sumySentences # <<>>
    /\ allSentences = regexSentences

\* C7: the summary never contains the same source sentence twice: a ranker
\* sentence (which keeps its terminal punctuation) or a leading sentence is
\* skipped when the same sentence is already selected.
C7_NoSentenceTwice ==
    sumPc = "done" =>
        \A i, j \in 1..Len(summarySentences) :
            i < j => SpecBare(summarySentences[i]) # SpecBare(summarySentences[j])

\* C8: for a text shorter than 100 characters neither the heuristic scorer nor
\* the ranker contributes a sentence, and every sentence of the summary is a
\* trimmed punctuation-delimited fragment of the text.
C8_ShortTextOwnFragments ==
    (Summarized /\ Len(caseText.s) < MinTextLenRegex) =>
        /\ regexSentences = <<>>
        /\ sumySentences = <<>>
        /\ stageCounts = NoCounts
        /\ \A i \in 1..Len(summarySentences) :
              \E a \in SpecCuts(caseText.s) \ {Len(caseText.s) + 1} :
                  summarySentences[i] = SpecFragmentAt(caseText.s, a)

\* C8 witness: a text shorter than 100 characters was summarized and the
\* summary holds a sentence.
C8_Witness ==
    /\ Summarized
    /\ Len(caseText.s) < MinTextLenRegex
    /\ Len(caseText.s) > MinSentRegex
    /\ summarySentences # <<>>

\* C9: for an empty or absent text extract_case_summary returns the empty
\* summary, with or without a title; no stage is run and nothing is raised.
C9_EmptyTextEmptySummary ==
    (sumPc = "done" /\ ~Truthy(caseText)) =>
        /\ summary = <<>>
        /\ summarySentences = <<>>
        /\ calls = <<>>

\* C9 witness: an empty text was summarized with a title.
C9_Witness ==
    /\ sumPc = "done"
    /\ caseText = Some(<<>>)
    /\ Truthy(caseTitle)

\* C10: for a non-empty text too short for any stage (shorter than 100
\* characters, no fragment longer than 30) the summary is empty, not a string
\* of punctuation or the title alone.
C10_TooShortEmptySummary ==
    ( /\ Summarized
      /\ Len(caseText.s) < MinTextLenRegex
      /\ SpecFragmentStarts(caseText.s, MinSentFallback) = {} )
    => summary = <<>>

\* C11: for a non-empty text and a non-empty title the summary is the title,
\* ": " and the summary the same call gives without a title (the ranker
\* returning the same sentences); the title changes nothing else.
C11_TitleOnlyPrefixes ==
    (Summarized /\ Truthy(caseTitle)) =>
        summary = caseTitle.s \o <<":", " ">>
                     \o ExtractCaseSummary(caseText, None, maxSentences,
                                           sumySentences).summary

\* C11 witness: a text was summarized with a title and the summary holds
\* sentences.
C11_Witness ==
    /\ Summarized
    /\ Truthy(caseTitle)
    /\ summarySentences # <<>>

\* the fragments of at least minLen characters, in document order
SpecFragmentsAtLeast(t, minLen) == SpecFragments(t, minLen - 1)

\* C12: segmentation with minimum length T (20 for the heuristic stage, 50
\* for the leading stage, 30 for the last resort) keeps, in document order,
\* exactly the trimmed fragments whose length is not below T: a fragment of
\* exactly T characters is retained.
C12_KeepsFragmentsNotBelowMinimum ==
    Summarized =>
        LET t == caseText.s
        IN  /\ "fallback" \in Range(calls) =>
                  summarySentences =
                      Take(SpecFragmentsAtLeast(t, MinSentFallback), maxSentences)
            /\ Len(Strip(t)) >= MinTextLenRegex =>
                  Len(regexSentences) =
                      Min(maxSentences, Len(SpecFragmentsAtLeast(t, MinSentRegex)))
            /\ ("leading" \in Range(calls) /\ regexSentences = <<>>
                   /\ sumySentences = <<>>) =>
                  allSentences =
                      Take(SpecFirstOccurrences(SpecFragmentsAtLeast(t, MinSentLeading)),
                           maxSentences)

-----------------------------------------------------------------------------
(* The scoring table as specified, computed once for the sentences of the  *)
(* input vocabulary.                                                       *)

\* whether the lowercase word w occurs in s, whatever the case of s
SpecOccurs(s, w) ==
    \E i \in 1..(Len(s) - Len(w) + 1) :
        \A j \in 1..Len(w) : LowerChar(s[i + j - 1]) = w[j]

\* the sentences of the input vocabulary
SpecSentences == UNION { Range(SpecFragments(c, 0)) : c \in Chunks }

\* the number of distinct verdict keywords that occur in each sentence
SpecVerdictCount ==
    [b \in SpecSentences |->
        Cardinality({i \in 1..Len(LegalKeywords) : SpecOccurs(b, LegalKeywords[i])})]

\* whether a court/institution keyword occurs in each sentence
SpecHasCourt ==
    [b \in SpecSentences |->
        \E i \in 1..Len(CourtKeywords) : SpecOccurs(b, CourtKeywords[i])]

\* whether a statutory-reference keyword occurs in each sentence
SpecHasSection ==
    [b \in SpecSentences |->
        \E i \in 1..Len(SectionKeywords) : SpecOccurs(b, SectionKeywords[i])]

\* the score of the table: each signal counted once, the verdict keywords
\* once each
SpecScore ==
    [b \in SpecSentences |->
        3 * SpecVerdictCount[b]
        + (IF SpecHasCourt[b] THEN 2 ELSE 0)
        + (IF SpecHasSection[b] THEN 2 ELSE 0)
        + (IF HasMatch(CitationPattern, b, FALSE) THEN 3 ELSE 0)
        + (IF HasMatch(VersusPattern, b, TRUE) THEN 2 ELSE 0)
        + (IF HasMatch(JusticePattern, b, FALSE) THEN 2 ELSE 0)
        + (IF HasMatch(ScoreDatePattern, b, FALSE) THEN 1 ELSE 0)
        + (IF Len(b) > 100 THEN 1 ELSE 0)]

\* C13: the score of a sentence is a non-negative integer, the sum of the
\* table's weights, where several court keywords or several statutory
\* keywords in one sentence still count +2 only once.
C13_ScoreIsTableSum ==
    Summarized =>
        \A i \in 1..Len(regexSentences) :
            /\ ScoreOf(regexSentences[i]) >= 0
            /\ ScoreOf(regexSentences[i]) = SpecScore[regexSentences[i]]

\* C14: the score of a sentence is at least 3 times the number of verdict
\* keywords that occur in it plus 2 when a statutory-reference keyword occurs;
\* a sentence with "held" and "Section" scores at least 5.
C14_ScoreLowerBound ==
    Summarized =>
        \A i \in 1..Len(regexSentences) :
            ScoreOf(regexSentences[i]) >=
                3 * SpecVerdictCount[regexSentences[i]]
                + (IF SpecHasSection[regexSentences[i]] THEN 2 ELSE 0)

\* C14 witness: the heuristic stage scored a sentence that contains "held"
\* and "Section".
C14_Witness ==
    /\ Summarized
    /\ \E i \in 1..Len(regexSentences) :
          /\ SpecOccurs(regexSentences[i], <<"h","e","l","d">>)
          /\ SpecOccurs(regexSentences[i], <<"s","e","c","t","i","o","n">>)
          /\ ScoreOf(regexSentences[i]) >= 5

\* the number of fragments of frs that come before fragment i when ordered
\* by score descending, then by position ascending
SpecRank(frs, i) ==
    Cardinality({j \in 1..Len(frs) :
                    \/ ScoreOf(frs[j]) > ScoreOf(frs[i])
                    \/ ScoreOf(frs[j]) = ScoreOf(frs[i]) /\ j < i})

\* C15: the heuristic stage returns the max_sentences sentences of highest
\* score, by score descending and, among equal scores, by position ascending;
\* sentences that score 0 remain candidates.
C15_StableByScore ==
    (Summarized /\ Len(Strip(caseText.s)) >= MinTextLenRegex) =>
        LET frs == SpecFragments(caseText.s, MinSentRegex)
        IN  /\ Len(regexSentences) = Min(maxSentences, Len(frs))
            /\ \A i \in 1..Len(frs) :
                  SpecRank(frs, i) < maxSentences =>
                      regexSentences[SpecRank(frs, i) + 1] = frs[i]

\* C15 witness: two different sentences have the same score, the earlier one
\* is selected and the later one is displaced by the limit.
C15_Witness ==
    /\ Summarized
    /\ Len(regexSentences) = maxSentences
    /\ LET frs == SpecFragments(caseText.s, MinSentRegex)
       IN  \E i, j \in 1..Len(frs) :
              /\ i < j
              /\ frs[i] # frs[j]
              /\ ScoreOf(frs[i]) = ScoreOf(frs[j])
              /\ frs[i] \in Range(regexSentences)
              /\ frs[j] \notin Range(regexSentences)

\* C16: a failure inside the statistical ranker is caught there and surfaces
\* as an empty list; extract_case_summary still returns, with the summary
\* built from the heuristic and the leading-sentence stages.
C16_RankerFailureCaught ==
    (Summarized /\ sumyRaised) =>
        /\ sumySentences = <<>>
        /\ stageCounts[2] = stageCounts[1]
        /\ allSentences =
              Take(SpecFirstOccurrences(regexSentences
                       \o SpecFragments(caseText.s, MinSentLeading)), maxSentences)
        /\ maxSentences >= 1 =>
              (allSentences # <<>> /\ summarySentences = allSentences)
        /\ summary # <<>>

\* C16 witness: the ranker raised and a summary with sentences was returned.
C16_Witness ==
    /\ Summarized
    /\ sumyRaised
    /\ "summarizer" \in Range(calls)
    /\ regexSentences # <<>>
    /\ summarySentences # <<>>

\* C18: a call with a negative max_sentences is rejected before any sentence
\* is selected; it never returns a summary.
C18_NegativeLengthRejected ==
    (Summarized /\ maxSentences < 0) =>
        /\ summarySentences = <<>>
        /\ summary = <<>>

\* C17: a call of the ranker with a method outside lsa, lexrank, textrank is
\* rejected: no summarizer is constructed and run for it.
C17_UnknownMethodRejected ==
    (sumPc = "ranked" /\ sumyMethod \notin KnownMethods) => calls = <<>>

\* two metadata records with judges, sections and tags compared as sets
SpecSameMetadata(a, b) ==
    /\ Range(a.judges) = Range(b.judges)
    /\ a.citation = b.citation
    /\ Range(a.sections) = Range(b.sections)
    /\ Range(a.tags) = Range(b.tags)

\* the judges a text names as Justice <Name>
SpecJudgeNames == { <<"P","r","a","s","a","d">>, <<"G","h","o","s","e">> }

SpecJudgesNamed(text) ==
    {n \in SpecJudgeNames : Contains(text, <<"J","u","s","t","i","c","e"," ">> \o n)}

C20_OneEntryPerJudge ==
    SpecJudgesNamed(metaText) # {} =>
        /\ metaRuns >= 1 =>
               Cardinality(Range(metaLast.judges)) = Cardinality(SpecJudgesNamed(metaText))
        /\ scJudges # <<>> =>
               Cardinality(Range(scJudges)) = Cardinality(SpecJudgesNamed(metaText))

\* the sentinel for a judgment whose judges are not known
SpecUnknownJudge == <<"U","n","k","n","o","w","n"," ","J","u","d","g","e">>

\* C21: when no judge pattern matches the page, the judges of the record are
\* exactly the unknown-judge sentinel, for either scraper.
C21_UnknownJudgeSentinel ==
    /\ (metaRuns >= 1 /\ BhcJudgeMatches(metaText) = <<>>) =>
           metaLast.judges = <<SpecUnknownJudge>>
    /\ (scJudges # <<>> /\ ScJudgeMatches(metaText) = <<>>) =>
           scJudges = <<SpecUnknownJudge>>

\* the citation as specified: the leftmost match of the first pattern, in
\* priority order, that matches anywhere in the text; "" when none matches
SpecCitation(pats, text) ==
    IF \A k \in 1..Len(pats) : MatchStarts(pats[k], text, FALSE) = {} THEN <<>>
    ELSE LET best == SetMin({k \in 1..Len(pats) : MatchStarts(pats[k], text, FALSE) # {}})
             from == SetMin(MatchStarts(pats[best], text, FALSE))
         IN  SubSeq(text, from, MatchFrom(pats[best], 1, text, from, FALSE) - 1)

\* C22: the citation either scraper extracts is the first match of the
\* highest-priority pattern that matches anywhere in the page, and it is
\* empty exactly when no pattern matches.
C22_CitationByPriority ==
    /\ metaRuns >= 1 =>
           /\ metaLast.citation = SpecCitation(BhcCitationPatterns, metaText)
           /\ (metaLast.citation = <<>>) =
                  (\A k \in 1..Len(BhcCitationPatterns) :
                      MatchStarts(BhcCitationPatterns[k], metaText, FALSE) = {})
    /\ scTags # <<>> =>
           /\ scCitation = SpecCitation(ScCitationPatterns, metaText)
           /\ (scCitation = <<>>) =
                  (\A k \in 1..Len(ScCitationPatterns) :
                      MatchStarts(ScCitationPatterns[k], metaText, FALSE) = {})

\* C22 witness: a case number that only a lower-priority pattern matches
\* comes first in the page, and the scraper has returned the citation of its
\* first pattern, which comes later.
C22_Witness ==
    /\ metaText = WritNumber \o ReporterCitations
    /\ \/ metaRuns >= 1 /\ metaLast.citation = <<"(","2","0","2","0",")"," ","B","O","M"," ","1","2">>
       \/ scTags # <<>> /\ scCitation = <<"(","2","0","1","4",")"," ","8"," ","S","C","C"," ","2","7","3">>

\* C23: the tags of a record are exactly the vocabulary terms whose
\* lower-cased form occurs in the lower-cased title, space and body, each
\* verbatim and once; every tag of either scraper occurs in that text.
C23_TagsAreMatchedTerms ==
    /\ metaRuns >= 1 =>
           /\ Range(metaLast.tags) =
                  {t \in Range(LegalTerms) :
                      SpecOccurs(metaTitle \o <<" ">> \o metaPdfText, Lower(t))}
           /\ \A i, j \in 1..Len(metaLast.tags) :
                  metaLast.tags[i] = metaLast.tags[j] => i = j
    /\ scTags # <<>> =>
           \A i \in 1..Len(scTags) :
              SpecOccurs(metaTitle \o <<" ">> \o metaPdfText, Lower(scTags[i]))

\* C24: under any interleaving of the calls on the shared summarizer, every
\* call returns a summary that the same call returns when run alone, and the
\* fields of the summarizer are as its constructor left them.
C24_CallsIndependent ==
    /\ concFields = SummarizerFields
    /\ \A c \in DOMAIN concPc :
          concPc[c] = "done" =>
              \E o \in SumyOutcomes(concText[c], DefaultMaxSentences) :
                  concOut[c] = ExtractCaseSummary(concText[c], concTitle[c],
                                                  DefaultMaxSentences, o.sents).summary

\* C24 witness: two calls with different texts have both returned a summary
\* and their steps overlapped.
C24_Witness ==
    /\ concPc # <<>>
    /\ concOverlapped
    /\ \A c \in Calls : concPc[c] = "done" /\ concOut[c] # <<>>
    /\ \E c, d \in Calls : concText[c] # concText[d]


-----------------------------------------------------------------------------
(* The judgments collection and the functions that save to it.             *)

MaxSaves == 3

StoreTitles == { ArneshTitle, <<"R","e",":"," ","B","a","i","l">> }

StoreCourts == { "Bombay High Court", "Test Court" }

StoreTexts == { "held", "dismissed" }

\* find_one found nothing: None
NoDoc == [id |-> <<>>, case_title |-> <<>>, court |-> "", text |-> ""]

\* the document SCJudgmentScraper.extract_judgment_info builds
ScJudgmentDoc(t, x) ==
    [id |-> ScGenerateJudgmentId(t, ArneshDate), case_title |-> t,
     court |-> "Supreme Court of India", text |-> x]

\* the document BHCJudgmentScraper.extract_judgment_info builds
BhcJudgmentDoc(t, x) ==
    [id |-> BhcGenerateJudgmentId(t, ArneshDate), case_title |-> t,
     court |-> "Bombay High Court", text |-> x]

\* the document save_case builds
SaveCaseDoc(c, t, x) ==
    [id |-> SaveCaseId(c, t, ArneshDate), case_title |-> t, court |-> c,
     text |-> x]

ScDocs == { ScJudgmentDoc(t, x) : t \in StoreTitles, x \in StoreTexts }

BhcDocs == { BhcJudgmentDoc(t, x) : t \in StoreTitles, x \in StoreTexts }

\* the positions of the documents whose id is the one asked for
Matching(st, id) == { i \in DOMAIN st : st[i].id = id }

FirstMatching(st, id) ==
    CHOOSE i \in Matching(st, id) : \A j \in Matching(st, id) : i <= j

\* collection.find_one({"id": id}): the first matching document, or None
FindOne(st, id) ==
    IF Matching(st, id) = {} THEN NoDoc ELSE st[FirstMatching(st, id)]

\* collection.insert_one(doc)
InsertOne(st, doc) == Append(st, doc)

\* collection.update_one({"id": id}, {"$set": doc}): the first matching
\* document takes every field of doc
UpdateOne(st, id, doc) ==
    IF Matching(st, id) = {} THEN st
    ELSE [st EXCEPT ![FirstMatching(st, id)] = doc]

\* the except clause of a save function: the error is logged, False returned
SaveFailed(st) == [store |-> st, ret |-> FALSE, raised |-> FALSE]

\* a save that inserts whatever the collection holds
ScSaveInsertOnly(st, doc, ok) ==
    IF ~ok THEN SaveFailed(st)
    ELSE [store |-> InsertOne(st, doc), ret |-> TRUE, raised |-> FALSE]

\* SCJudgmentScraper.save_to_mongodb; ok: the database answers
ScSaveToMongodb(st, doc, ok) ==
    IF ~ok THEN SaveFailed(st)
    ELSE IF FindOne(st, doc.id) # NoDoc
         THEN [store  |-> UpdateOne(st, doc.id, doc), ret |-> TRUE,
               raised |-> FALSE]
         ELSE [store  |-> InsertOne(st, doc), ret |-> TRUE, raised |-> FALSE]

\* BHCJudgmentScraper.save_to_mongodb
BhcSaveToMongodb(st, doc, ok) ==
    IF ~ok THEN SaveFailed(st)
    ELSE IF FindOne(st, doc.id) # NoDoc
         THEN [store |-> st, ret |-> FALSE, raised |-> FALSE]
         ELSE [store |-> InsertOne(st, doc), ret |-> TRUE, raised |-> FALSE]

\* a save_case that overwrites the judgment it finds
SaveCaseOverwriting(st, c, t, x, ok) ==
    ScSaveToMongodb(st, SaveCaseDoc(c, t, x), ok)

\* unified_scraper.save_case
SaveCase(st, c, t, x, ok) ==
    IF ~ok THEN SaveFailed(st)
    ELSE IF FindOne(st, SaveCaseId(c, t, ArneshDate)) # NoDoc
         THEN [store |-> st, ret |-> FALSE, raised |-> FALSE]
         ELSE [store  |-> InsertOne(st, SaveCaseDoc(c, t, x)), ret |-> TRUE,
               raised |-> FALSE]

NoSave == [op |-> "none", doc |-> NoDoc, ok |-> TRUE, ret |-> FALSE,
           raised |-> FALSE]

NoScrape == [scraper |-> "none", total_found |-> 0, inserted_count |-> 0]

\* the documents saved last, per id
Latest(saved, doc) == { d \in saved : d.id # doc.id } \cup {doc}

RaceIdle ==
    /\ racePc = <<>>
    /\ raceDoc = <<>>

\* the collection is empty or holds one judgment of an earlier run
StoreStart ==
    /\ store \in {<<>>} \cup { <<d>> : d \in ScDocs \cup BhcDocs }
    /\ storeBefore = store
    /\ lastSave = NoSave
    /\ scSaved = {}
    /\ saves = 0
    /\ scrapeOut = NoScrape

\* no other subsystem runs in the behaviours of the collection
OthersIdle ==
    /\ AutoIdle
    /\ ConcIdle
    /\ MetaIdle
    /\ SumIdle
    /\ title = <<>>
    /\ date = <<>>
    /\ court = "none"
    /\ op = "init"
    /\ key = NoKey
    /\ pageText = <<>>
    /\ now = 1
    /\ bhcIds = {}
    /\ scIds = {}

StoreInit ==
    /\ StoreStart
    /\ RaceIdle
    /\ OthersIdle

\* the effect of one save call on the variables of the collection
Saved(name, doc, ok, r) ==
    /\ store' = r.store
    /\ storeBefore' = store
    /\ lastSave' = [op |-> name, doc |-> doc, ok |-> ok, ret |-> r.ret,
                    raised |-> r.raised]
    /\ scSaved' = IF name = "sc" /\ r.ret THEN Latest(scSaved, doc) ELSE scSaved
    /\ saves' = saves + 1
    /\ UNCHANGED <<scrapeOut, racePc, raceDoc>>
    /\ UNCHANGED <<keyVars, ingestVars, sumVars, metaVars, autoVars, concVars>>

\* one call of SCJudgmentScraper.save_to_mongodb
ScSave ==
    /\ saves < MaxSaves
    /\ \E doc \in ScDocs, ok \in BOOLEAN :
          Saved("sc", doc, ok, ScSaveToMongodb(store, doc, ok))

\* one call of BHCJudgmentScraper.save_to_mongodb
BhcSave ==
    /\ saves < MaxSaves
    /\ \E doc \in BhcDocs, ok \in BOOLEAN :
          Saved("bhc", doc, ok, BhcSaveToMongodb(store, doc, ok))

\* one call of save_case
SaveCaseCall ==
    /\ saves < MaxSaves
    /\ \E c \in StoreCourts, t \in StoreTitles, x \in StoreTexts, ok \in BOOLEAN :
          Saved("save_case", SaveCaseDoc(c, t, x), ok,
                SaveCase(store, c, t, x, ok))

StoreNext == ScSave \/ BhcSave \/ SaveCaseCall

SpecStore == StoreInit /\ [][StoreNext]_vars

\* C25: after SCJudgmentScraper.save_to_mongodb calls, every call the database
\* answered returned True, and for every id so saved the collection holds
\* exactly one document, which find_one returns and which is the one saved
\* last under that id.
C25_ScSaveKeepsLatest ==
    /\ (lastSave.op = "sc" /\ lastSave.ok) => lastSave.ret
    /\ \A d \in scSaved :
          /\ Cardinality(Matching(store, d.id)) = 1
          /\ FindOne(store, d.id) = d

\* a judgment was saved twice with different texts, and another id as well
C25_Witness ==
    /\ lastSave.op = "sc" /\ lastSave.ret
    /\ FindOne(storeBefore, lastSave.doc.id) # NoDoc
    /\ FindOne(storeBefore, lastSave.doc.id).text # lastSave.doc.text
    /\ Cardinality(scSaved) = 2


\* C26: save_case and BHCJudgmentScraper.save_to_mongodb return True exactly
\* when they appended the judgment to the collection; when a judgment with
\* the same id is stored they return False and the collection is as it was;
\* they never raise, the court without a prefix of its own included.
C26_TrueIffInserted ==
    lastSave.op \in {"save_case", "bhc"} =>
        /\ ~lastSave.raised
        /\ lastSave.ret <=> store = Append(storeBefore, lastSave.doc)
        /\ ~lastSave.ret => store = storeBefore
        /\ FindOne(storeBefore, lastSave.doc.id) # NoDoc =>
              ~lastSave.ret /\ store = storeBefore

\* save_case found the judgment of a court without a prefix of its own, stored
\* under the prefix 'court' with another text, and returned False
C26_Witness ==
    /\ lastSave.op = "save_case" /\ lastSave.ok /\ ~lastSave.ret
    /\ lastSave.doc.court = "Test Court"
    /\ Take(lastSave.doc.id, 6) = <<"c","o","u","r","t","_">>
    /\ FindOne(store, lastSave.doc.id).court = "Test Court"
    /\ FindOne(store, lastSave.doc.id).text # lastSave.doc.text


-----------------------------------------------------------------------------
(* Workers saving to the collection at the same time: find_one and the     *)
(* write that follows it are two operations of the database.               *)

MaxWorkers == 2

Workers == 1..MaxWorkers

\* what a worker may be asked to save, with the function that saves it
RaceJobs ==
    { [fn |-> "sc", doc |-> d] : d \in ScDocs }
    \cup { [fn |-> "bhc", doc |-> BhcJudgmentDoc(ArneshTitle, x)] :
              x \in StoreTexts }
    \cup { [fn |-> "save_case", doc |-> SaveCaseDoc(c, ArneshTitle, "held")] :
              c \in StoreCourts }

NoJob == [fn |-> "none", doc |-> NoDoc]

RaceInit ==
    /\ StoreStart
    /\ racePc = [w \in Workers |-> "idle"]
    /\ raceDoc = [w \in Workers |-> NoJob]
    /\ OthersIdle

\* the call of worker w ends and returns ret
RaceReturn(w, ret) ==
    /\ racePc' = [racePc EXCEPT ![w] = "idle"]
    /\ lastSave' = [op |-> raceDoc[w].fn, doc |-> raceDoc[w].doc, ok |-> TRUE,
                    ret |-> ret, raised |-> FALSE]
    /\ UNCHANGED <<raceDoc, scSaved, saves, scrapeOut>>
    /\ UNCHANGED <<keyVars, ingestVars, sumVars, metaVars, autoVars, concVars>>

\* worker w enters a save function and runs its find_one; when the database
\* raises, the call returns False at once
RaceFind(w) ==
    /\ racePc[w] = "idle"
    /\ saves < MaxSaves
    /\ \E job \in RaceJobs, ok \in BOOLEAN :
          /\ raceDoc' = [raceDoc EXCEPT ![w] = job]
          /\ racePc' = [racePc EXCEPT ![w] =
                IF ~ok THEN "idle"
                ELSE IF FindOne(store, job.doc.id) # NoDoc THEN "found"
                ELSE "absent"]
          /\ lastSave' = IF ok THEN lastSave
                         ELSE [op |-> job.fn, doc |-> job.doc, ok |-> FALSE,
                               ret |-> FALSE, raised |-> FALSE]
    /\ saves' = saves + 1
    /\ UNCHANGED <<store, storeBefore, scSaved, scrapeOut>>
    /\ UNCHANGED <<keyVars, ingestVars, sumVars, metaVars, autoVars, concVars>>

\* find_one returned None: worker w runs insert_one and returns True
RaceInsert(w) ==
    /\ racePc[w] = "absent"
    /\ store' = InsertOne(store, raceDoc[w].doc)
    /\ storeBefore' = store
    /\ RaceReturn(w, TRUE)

\* find_one returned a document: SCJudgmentScraper runs update_one and returns
\* True, the other two functions return False
RaceExisting(w) ==
    /\ racePc[w] = "found"
    /\ store' = IF raceDoc[w].fn = "sc"
                THEN UpdateOne(store, raceDoc[w].doc.id, raceDoc[w].doc)
                ELSE store
    /\ storeBefore' = store
    /\ RaceReturn(w, raceDoc[w].fn = "sc")

RaceNext == \E w \in Workers : RaceFind(w) \/ RaceInsert(w) \/ RaceExisting(w)

SpecRace == RaceInit /\ [][RaceNext]_vars

\* C27: whatever the interleaving of the workers, no two documents of the
\* collection have the same id.
C27_OneRecordPerKey ==
    \A i, j \in DOMAIN store : store[i].id = store[j].id => i = j


-----------------------------------------------------------------------------
(* scrape_judgments of the two scrapers: every judgment of the list is     *)
(* saved, the saves that returned True are counted.                        *)

MaxBatch == 2

\* save_to_mongodb of the scraper named
ScraperSave(scraper, st, doc, ok) ==
    IF scraper = "sc" THEN ScSaveToMongodb(st, doc, ok)
    ELSE BhcSaveToMongodb(st, doc, ok)

\* the for loop of scrape_judgments from judgment i on; the database raises in
\* the save of judgment bad
RECURSIVE ScrapeLoop(_, _, _, _, _)
ScrapeLoop(scraper, acc, judgments, bad, i) ==
    IF i > Len(judgments) THEN acc
    ELSE LET r == ScraperSave(scraper, acc.store, judgments[i], i # bad)
         IN  ScrapeLoop(scraper,
                 [store |-> r.store,
                  inserted_count |-> acc.inserted_count + (IF r.ret THEN 1 ELSE 0),
                  saved |-> IF scraper = "sc" /\ r.ret
                            THEN Latest(acc.saved, judgments[i]) ELSE acc.saved],
                 judgments, bad, i + 1)

\* scrape_judgments(limit) of the scraper named, get_judgment_list having
\* returned judgments
ScrapeJudgments(scraper, judgments, bad) ==
    /\ saves + Len(judgments) <= MaxSaves
    /\ LET r == ScrapeLoop(scraper,
                    [store |-> store, inserted_count |-> 0, saved |-> scSaved],
                    judgments, bad, 1)
       IN  /\ store' = r.store
           /\ scSaved' = r.saved
           /\ scrapeOut' = [scraper |-> scraper, total_found |-> Len(judgments),
                            inserted_count |-> r.inserted_count]
    /\ storeBefore' = store
    /\ saves' = saves + Len(judgments)
    /\ UNCHANGED <<lastSave, racePc, raceDoc>>
    /\ UNCHANGED <<keyVars, ingestVars, sumVars, metaVars, autoVars, concVars>>

\* SCJudgmentScraper.scrape_judgments
ScScrapeJudgments ==
    \E judgments \in SeqsUpTo(ScDocs, MaxBatch) :
        \E bad \in 0..Len(judgments) : ScrapeJudgments("sc", judgments, bad)

\* BHCJudgmentScraper.scrape_judgments
BhcScrapeJudgments ==
    \E judgments \in SeqsUpTo(BhcDocs, MaxBatch) :
        \E bad \in 0..Len(judgments) : ScrapeJudgments("bhc", judgments, bad)

ScrapeInit == StoreInit

ScrapeNext == ScScrapeJudgments \/ BhcScrapeJudgments

SpecScrape == ScrapeInit /\ [][ScrapeNext]_vars

\* C28: the inserted_count scrape_judgments returns is the number of
\* documents the run added to the collection, and is at most total_found.
C28_InsertedCountIsAdded ==
    scrapeOut.scraper # "none" =>
        /\ scrapeOut.inserted_count = Len(store) - Len(storeBefore)
        /\ scrapeOut.inserted_count <= scrapeOut.total_found


-----------------------------------------------------------------------------
(* The daily job of LegalCaseScraper: the cases scraped are saved to        *)
(* db.judgments and indexed to Elasticsearch.                               *)

MaxCases == 2

MaxJobs == 2

AutoCourts == { "Supreme Court of India", "Delhi High Court" }

\* the cases the scrape functions may return
AutoCases == { [case_title |-> t, court |-> c] : t \in StoreTitles, c \in AutoCourts }

\* existing_titles: the case_title of every document of db.judgments
ExistingTitles(st) == { st[i].case_title : i \in DOMAIN st }

\* case['case_title'] not in existing_titles
IsNewCase(titles, case) == case.case_title \notin titles

\* new_cases: the cases whose title was not stored when the call began
NewCases(st, cases) ==
    SelectSeq(cases, LAMBDA case : IsNewCase(ExistingTitles(st), case))

\* LegalCaseScraper.save_to_mongodb(cases); ok: the database answers
AutoSaveToMongodb(st, cases, ok) ==
    IF cases = <<>> THEN [store |-> st, ret |-> 0]
    ELSE IF ~ok THEN [store |-> st, ret |-> 0]
    ELSE [store |-> st \o NewCases(st, cases), ret |-> Len(NewCases(st, cases))]

\* LegalCaseScraper.index_to_elasticsearch(cases): the cases indexed, the
\* indexing of case bad raising
IndexToElasticsearch(cases, bad) ==
    SelectSeq([i \in DOMAIN cases |-> [n |-> i, case |-> cases[i]]],
              LAMBDA e : e.n # bad)

NoRun == [fn |-> "none", cases |-> <<>>, saved_count |-> 0, indexed |-> <<>>,
          es_ok |-> TRUE]

\* db.judgments is empty or holds one case of an earlier run
AutoInit ==
    /\ autoStore \in {<<>>} \cup { <<c>> : c \in AutoCases }
    /\ autoBefore = autoStore
    /\ esIndex = autoStore
    /\ autoRun = NoRun
    /\ autoRuns = 0
    /\ StoreIdle
    /\ ConcIdle
    /\ MetaIdle
    /\ SumIdle
    /\ title = <<>>
    /\ date = <<>>
    /\ court = "none"
    /\ op = "init"
    /\ key = NoKey
    /\ pageText = <<>>
    /\ now = 1
    /\ bhcIds = {}
    /\ scIds = {}

\* one call of LegalCaseScraper.save_to_mongodb
AutoSave ==
    /\ autoRuns < MaxJobs
    /\ \E cases \in SeqsUpTo(AutoCases, MaxCases), ok \in BOOLEAN :
          LET r == AutoSaveToMongodb(autoStore, cases, ok)
          IN  /\ autoStore' = r.store
              /\ autoRun' = [fn |-> "save_to_mongodb", cases |-> cases,
                             saved_count |-> r.ret, indexed |-> <<>>,
                             es_ok |-> TRUE]
    /\ autoBefore' = autoStore
    /\ autoRuns' = autoRuns + 1
    /\ UNCHANGED esIndex
    /\ UNCHANGED <<keyVars, ingestVars, sumVars, metaVars, storeVars, concVars>>

\* one run of LegalCaseScraper.run_daily_scraping, the scrape functions having
\* returned all_cases
RunDailyScraping ==
    /\ autoRuns < MaxJobs
    /\ \E all_cases \in SeqsUpTo(AutoCases, MaxCases), ok \in BOOLEAN :
          \E bad \in 0..Len(all_cases) :
              LET r == AutoSaveToMongodb(autoStore, all_cases, ok)
                  indexed == IF r.ret > 0
                             THEN IndexToElasticsearch(all_cases, bad)
                             ELSE <<>>
              IN  /\ autoStore' = r.store
                  /\ esIndex' = esIndex \o [i \in DOMAIN indexed |-> indexed[i].case]
                  /\ autoRun' = [fn |-> "run_daily_scraping", cases |-> all_cases,
                                 saved_count |-> r.ret,
                                 indexed |-> [i \in DOMAIN indexed |-> indexed[i].case],
                                 es_ok |-> bad = 0]
    /\ autoBefore' = autoStore
    /\ autoRuns' = autoRuns + 1
    /\ UNCHANGED <<keyVars, ingestVars, sumVars, metaVars, storeVars, concVars>>

AutoNext == AutoSave \/ RunDailyScraping

SpecAuto == AutoInit /\ [][AutoNext]_vars

\* the documents the latest call added to db.judgments
NewlyInserted == SubSeq(autoStore, Len(autoBefore) + 1, Len(autoStore))

\* C29: run_daily_scraping indexes only cases the run inserted, and all of
\* them when Elasticsearch answers; a case save_to_mongodb skipped as a
\* duplicate is not indexed.
C29_IndexesNewlyInserted ==
    autoRun.fn = "run_daily_scraping" =>
        /\ Range(autoRun.indexed) \subseteq Range(NewlyInserted)
        /\ autoRun.es_ok => autoRun.indexed = NewlyInserted

\* C30: no two documents of db.judgments have the same case_title, and the
\* count save_to_mongodb returned is the number of documents it added.
C30_NoDuplicateTitles ==
    /\ \A i, j \in DOMAIN autoStore :
          autoStore[i].case_title = autoStore[j].case_title => i = j
    /\ autoRun.fn # "none" =>
          autoRun.saved_count = Len(autoStore) - Len(autoBefore)

=============================================================================
